---- MODULE Spec2Model ----
(***************************************************************************)
(* The in-memory storage registry of BoostNote.next (createDbStoreCreator): *)
(* the folder / tag / note index kept beside each storage's document store, *)
(* and the scheduler of background replication.                             *)
(*                                                                          *)
(* Pathnames are sequences of characters, so that prefix tests, splitting   *)
(* on "/" and prefix rewriting are computed as the code computes them.      *)
(***************************************************************************)
EXTENDS Integers, Sequences, FiniteSets, TLC

(***************************************************************************)
(* Bounds of the model.                                                     *)
(***************************************************************************)
\* note ids generated in one behaviour
MaxNotes == 2
\* registry operations called in one behaviour
MaxSteps == 3
\* pending timeouts of one storage (the code sets no limit)
MaxTimers == 2
\* replication sessions of one storage in flight
MaxSessions == 2
\* calls made in one behaviour of overlapping calls
MaxCalls == 2

(***************************************************************************)
(* Program constants.                                                       *)
(***************************************************************************)
autoSyncIntervalTime == 1000 * 60 * 60
autoSyncDebounceWaitingTime == 1000 * 30

(***************************************************************************)
(* Generic helpers: JavaScript objects used as maps, and strings.           *)
(***************************************************************************)
\* the value `undefined`, as stored under a key of an object
Undefined == [undefined |-> TRUE]
\* a cloud-link descriptor that is absent
NoCloud == [linked |-> FALSE]
\* the descriptor of a linked cloud storage, and whether syncedAt has been set
Linked == [linked |-> TRUE, synced |-> FALSE]

EmptyMap == [x \in {} |-> x]
\* obj[k] = v
Put(f, k, v) == [x \in (DOMAIN f) \cup {k} |-> IF x = k THEN v ELSE f[x]]
\* delete obj[k]
Del(f, k) == [x \in (DOMAIN f) \ {k} |-> f[x]]
\* { ...f, ...g }
Merge(f, g) == [x \in (DOMAIN f) \cup (DOMAIN g) |-> IF x \in DOMAIN g THEN g[x] ELSE f[x]]
\* obj[k] == null
IsNull(f, k) == k \notin DOMAIN f \/ f[k] = Undefined

\* String.prototype.startsWith
StartsWith(s, prefix) ==
  /\ Len(prefix) <= Len(s)
  /\ SubSeq(s, 1, Len(prefix)) = prefix

\* s.split('/').length
SplitLength(s) == Cardinality({i \in 1..Len(s) : s[i] = "/"}) + 1

\* folderPathname.replace(new RegExp(`^${escapeRegExp(pathname)}`, 'g'), newPathname)
ReplacePrefix(folderPathname, pathname, newPathname) ==
  IF StartsWith(folderPathname, pathname)
  THEN newPathname \o SubSeq(folderPathname, Len(pathname) + 1, Len(folderPathname))
  ELSE folderPathname

Root == <<"/">>

\* position of the last "/" of a pathname
LastSlash(s) ==
  LET idx == {i \in 1..Len(s) : s[i] = "/"}
  IN  CHOOSE i \in idx : \A j \in idx : j <= i

\* the pathname one level up; the root is its own parent
getParentFolderPathname(pathname) ==
  IF LastSlash(pathname) <= 1 THEN Root
  ELSE SubSeq(pathname, 1, LastSlash(pathname) - 1)

\* every ancestor of a pathname up to the root, the pathname itself excluded
RECURSIVE getAllParentFolderPathnames(_)
getAllParentFolderPathnames(pathname) ==
  LET parent == getParentFolderPathname(pathname)
  IN  IF pathname = Root THEN {}
      ELSE IF parent = Root THEN {Root}
      ELSE {parent} \cup getAllParentFolderPathnames(parent)

\* a pathname is the root, or "/" followed by folder names separated by "/",
\* none of them empty
isFolderPathnameValid(pathname) ==
  \/ pathname = Root
  \/ /\ Len(pathname) >= 2
     /\ pathname[1] = "/"
     /\ pathname[Len(pathname)] # "/"
     /\ \A i \in 1..(Len(pathname) - 1) :
          ~(pathname[i] = "/" /\ pathname[i + 1] = "/")

(***************************************************************************)
(* The universe the inputs are drawn from.                                  *)
(***************************************************************************)
PA == <<"/", "a">>
PAB == <<"/", "a", "b">>
PAC == <<"/", "a", "/", "c">>
PABC == <<"/", "a", "b", "/", "c">>
PAD == <<"/", "a", "/", "d">>
\* "/", "/a", "/ab", "/a/c"
Paths == {Root, PA, PAB, PAC}
\* the new pathnames a caller gives renameFolder: those, "/ab/c" and "/a/d"
NewPaths == Paths \cup {PABC, PAD}
TagNames == {"t", "u"}
StorageIds == {"S", "T"}


TagSets == SUBSET TagNames
\* the props a caller gives createNote
CreateProps == [folderPathname : Paths, tags : TagSets]
\* the partial props a caller gives updateNote
UpdateProps ==
  [folderPathname : {PA, PAC}, tags : {{}, {"u"}}]
    \cup [folderPathname : Paths] \cup [tags : TagSets]

(***************************************************************************)
(* The document store of one storage (NoteDb): note records, folder records *)
(* and tag records.  A tag list is kept as the set of its names.            *)
(***************************************************************************)
EmptyStore == [notes |-> EmptyMap, folders |-> {}, tags |-> {}]

\* the store rejects a malformed pathname
StoreCreateFolderThrows(pathname) == ~isFolderPathnameValid(pathname)

\* a folder record is created together with every missing ancestor
StoreCreateFolder(d, pathname) ==
  [d EXCEPT !.folders = @ \cup {pathname} \cup getAllParentFolderPathnames(pathname)]

StoreGetFolder(d, pathname) == pathname \in d.folders

StoreGetFoldersByPathnames(d, pathnames) == pathnames \cap d.folders

StoreGetNote(d, noteId) == noteId \in DOMAIN d.notes

\* a new, non-trashed note; its folder (with ancestors) and tags are upserted
StoreCreateNote(d, noteId, props) ==
  LET withFolder == StoreCreateFolder(d, props.folderPathname)
  IN  [withFolder EXCEPT
         !.tags = @ \cup props.tags,
         !.notes = Put(@, noteId, [folderPathname |-> props.folderPathname,
                                   tags |-> props.tags,
                                   trashed |-> FALSE])]

\* the given props replace the note's; a given folder or tag is upserted
StoreUpdateNote(d, noteId, props) ==
  LET old == d.notes[noteId]
      new == [folderPathname |-> IF "folderPathname" \in DOMAIN props
                                 THEN props.folderPathname ELSE old.folderPathname,
              tags |-> IF "tags" \in DOMAIN props THEN props.tags ELSE old.tags,
              trashed |-> old.trashed]
      withFolder == IF "folderPathname" \in DOMAIN props
                    THEN StoreCreateFolder(d, props.folderPathname) ELSE d
  IN  [withFolder EXCEPT
         !.tags = IF "tags" \in DOMAIN props THEN @ \cup props.tags ELSE @,
         !.notes = Put(@, noteId, new)]

StoreTrashNote(d, noteId) == [d EXCEPT !.notes[noteId].trashed = TRUE]

\* untrashing upserts the note's folder (with ancestors) and tags again
StoreUntrashNote(d, noteId) ==
  LET note == d.notes[noteId]
      withFolder == StoreCreateFolder(d, note.folderPathname)
  IN  [withFolder EXCEPT
         !.tags = @ \cup note.tags,
         !.notes[noteId].trashed = FALSE]

StorePurgeNote(d, noteId) == [d EXCEPT !.notes = Del(@, noteId)]

\* every stored note filed under the pathname, trashed ones included
StoreFindNotesByFolder(d, pathname) ==
  {n \in DOMAIN d.notes : d.notes[n].folderPathname = pathname}

\* the folder records at pathname and below it
StoreFoldersUnder(d, pathname) ==
  {f \in d.folders : f = pathname \/ StartsWith(f, pathname \o <<"/">>)}

\* deletes the folder and its descendants; the notes filed there are trashed
StoreRemoveFolder(d, pathname) ==
  LET gone == StoreFoldersUnder(d, pathname)
  IN  [d EXCEPT
         !.folders = @ \ gone,
         !.notes = [n \in DOMAIN @ |->
                      IF @[n].folderPathname \in gone
                      THEN [@[n] EXCEPT !.trashed = TRUE] ELSE @[n]]]

\* strips the tag from every note carrying it and deletes the tag record
StoreRemoveTag(d, tag) ==
  [d EXCEPT
     !.tags = @ \ {tag},
     !.notes = [n \in DOMAIN @ |-> [@[n] EXCEPT !.tags = @ \ {tag}]]]

(***************************************************************************)
(* The index snapshot of one storage (NoteStorage).                         *)
(***************************************************************************)
FolderEntry(ids) == [noteIdSet |-> ids]
TagEntry(ids) == [noteIdSet |-> ids]

\* (variant) the pass does not skip the trashed notes
IndexNoteTrashed(storage, noteDoc, noteId) ==
  [storage EXCEPT
     !.folderMap[noteDoc.folderPathname] = FolderEntry(@.noteIdSet \cup {noteId}),
     !.tagMap = [t \in DOMAIN @ |->
                   IF t \in noteDoc.tags
                   THEN TagEntry(@[t].noteIdSet \cup {noteId}) ELSE @[t]]]

\* one turn of the pass: a trashed note is skipped, any other note is added to
\* the noteIdSet of its folder entry and of the entry of each of its tags
IndexNote(storage, noteDoc, noteId) ==
  IF noteDoc.trashed
  THEN storage
  ELSE [storage EXCEPT
          !.folderMap[noteDoc.folderPathname] =
             FolderEntry(@.noteIdSet \cup {noteId}),
          !.tagMap = [t \in DOMAIN @ |->
                        IF t \in noteDoc.tags
                        THEN TagEntry(@[t].noteIdSet \cup {noteId}) ELSE @[t]]]

\* the pass over Object.values(noteMap)
RECURSIVE IndexNotes(_, _)
IndexNotes(storage, noteIds) ==
  IF noteIds = {}
  THEN storage
  ELSE LET noteId == CHOOSE n \in noteIds : TRUE
       IN  IndexNotes(IndexNote(storage, storage.noteMap[noteId], noteId),
                      noteIds \ {noteId})

\* prepareStorage: every folder and tag record of the store gets an entry with
\* an empty noteIdSet, then one pass over the store's notes fills the sets
prepareStorage(name, cloudStorage, d) ==
  IndexNotes([name |-> name,
              cloudStorage |-> cloudStorage,
              noteMap |-> d.notes,
              folderMap |-> [p \in d.folders |-> FolderEntry({})],
              tagMap |-> [t \in d.tags |-> TagEntry({})],
              sync |-> 0,
              syncTimer |-> 0],
             DOMAIN d.notes)

\* the pass dereferences the folder and tag entries of every non-trashed note
prepareStorageThrows(d) ==
  \E n \in DOMAIN d.notes :
    /\ ~d.notes[n].trashed
    /\ \/ d.notes[n].folderPathname \notin d.folders
       \/ ~(d.notes[n].tags \subseteq d.tags)

(***************************************************************************)
(* State.                                                                   *)
(***************************************************************************)
VARIABLES
  storageMap,      \* the registry: storage id -> NoteStorage
  db,              \* storage id -> document store
  timers,          \* storage id -> pending timeouts [h, delay]
  sessions,        \* storage id -> replication sessions in flight
  enableAutoSync,  \* enableAutoSyncRef.current
  noteCount,       \* note ids generated so far
  rename,          \* the renameFolder call in progress, if any
  last,            \* the registry operation that returned last
  steps,           \* registry operations called so far
  calls,           \* the overlapping calls: those made, and those not yet committed
  saved            \* the descriptors last written by saveStorageDataList

vars == <<storageMap, db, timers, sessions, enableAutoSync, noteCount, rename,
          last, steps, calls, saved>>

NoRename == [active |-> FALSE, cb |-> EmptyMap]
NoOp == [op |-> "none"]
NoCalls == [ops |-> <<>>, open |-> {}]

\* an operation is called only when the previous one has run to completion
Idle == rename = NoRename

(***************************************************************************)
(* queueSyncingStorage, as a function of the registry and the pending       *)
(* timeouts: the timeout held in syncTimer is cleared and a new one armed.  *)
(***************************************************************************)
TimerHandles(tm, s) == {t.h : t \in tm[s]}

FreshHandle(used) ==
  CHOOSE h \in 1..(Cardinality(used) + 1) : h \notin used

\* the update queueSyncingStorage applies to the registry
armSyncTimer(map, tm, s, delay) ==
  IF s \notin DOMAIN map
  THEN [map |-> map, timers |-> tm]
  ELSE LET storage == map[s]
           kept == {t \in tm[s] : t.h # storage.syncTimer}
           h == FreshHandle(TimerHandles(tm, s) \cup {storage.syncTimer})
       IN  [map |-> [map EXCEPT ![s].syncTimer = h],
            timers |-> [tm EXCEPT ![s] = kept \cup {[h |-> h, delay |-> delay]}]]

\* (variant) a timer is armed for another registered storage as well
queueSyncingStorageOthers(map, tm, s, delay) ==
  IF ~enableAutoSync
  THEN [map |-> map, timers |-> tm]
  ELSE LET q == armSyncTimer(map, tm, s, delay)
           others == (DOMAIN map) \ {s}
       IN  IF others = {} THEN q
           ELSE armSyncTimer(q.map, q.timers, CHOOSE o \in others : TRUE, delay)

queueSyncingStorage(map, tm, s, delay) ==
  IF ~enableAutoSync
  THEN [map |-> map, timers |-> tm]
  ELSE armSyncTimer(map, tm, s, delay)

\* (variant) the session handle is deleted with the timeout handle
cancelSyncingStorageQueueAll(map, tm, s) ==
  IF s \notin DOMAIN map
  THEN [map |-> map, timers |-> tm]
  ELSE IF map[s].syncTimer = 0
  THEN [map |-> map, timers |-> tm]
  ELSE [map |-> [map EXCEPT ![s].syncTimer = 0, ![s].sync = 0],
        timers |-> [tm EXCEPT ![s] = {t \in @ : t.h # map[s].syncTimer}]]

\* the timeout held in syncTimer is cleared and the field deleted
cancelSyncingStorageQueue(map, tm, s) ==
  IF s \notin DOMAIN map
  THEN [map |-> map, timers |-> tm]
  ELSE IF map[s].syncTimer = 0
  THEN [map |-> map, timers |-> tm]
  ELSE [map |-> [map EXCEPT ![s].syncTimer = 0],
        timers |-> [tm EXCEPT ![s] = {t \in @ : t.h # map[s].syncTimer}]]

\* queueSyncingAllStorage / cancelAllSyncingStorageQueue: one call per storage id
RECURSIVE queueSyncingAllStorage(_, _, _, _)
queueSyncingAllStorage(map, tm, storageIds, delay) ==
  IF storageIds = {} THEN [map |-> map, timers |-> tm]
  ELSE LET s == CHOOSE x \in storageIds : TRUE
           q == armSyncTimer(map, tm, s, delay)
       IN  queueSyncingAllStorage(q.map, q.timers, storageIds \ {s}, delay)

RECURSIVE cancelAllSyncingStorageQueue(_, _, _)
cancelAllSyncingStorageQueue(map, tm, storageIds) ==
  IF storageIds = {} THEN [map |-> map, timers |-> tm]
  ELSE LET s == CHOOSE x \in storageIds : TRUE
           q == cancelSyncingStorageQueue(map, tm, s)
       IN  cancelAllSyncingStorageQueue(q.map, q.timers, storageIds \ {s})

\* saveStorageDataList: the descriptors written to the persistent storage
saveStorageDataList(map) ==
  [s \in DOMAIN map |->
     [name |-> map[s].name, cloudStorage |-> map[s].cloudStorage]]

\* (variant) the cloud storage of the descriptor is kept
unlinkStorageKept(map, s) == map

unlinkStorage(map, s) ==
  IF s \notin DOMAIN map THEN map
  ELSE [map EXCEPT ![s].cloudStorage = NoCloud]

linkStorage(map, s, cloudStorage) ==
  IF s \notin DOMAIN map THEN map
  ELSE [map EXCEPT ![s].cloudStorage = cloudStorage]

\* (variant) a session handle that is set does not refuse a new session
SyncRefusedUnlinked(storage) == storage.cloudStorage = NoCloud

\* syncStorage starts nothing for an unlinked storage or while a session is set
SyncRefused(storage) ==
  \/ storage.cloudStorage = NoCloud
  \/ storage.sync # 0

\* a session captures the storage as it is when the session starts
syncStorage(map, ss, s, silent) ==
  IF s \notin DOMAIN map
  THEN [map |-> map, sessions |-> ss]
  ELSE IF SyncRefused(map[s])
  THEN [map |-> map, sessions |-> ss]
  ELSE LET id == FreshHandle({x.id : x \in ss[s]})
       IN  [map |-> [map EXCEPT ![s].sync = id],
            sessions |->
              [ss EXCEPT ![s] = @ \cup {[id |-> id,
                                         name |-> map[s].name,
                                         cloudStorage |-> map[s].cloudStorage,
                                         silent |-> silent]}]]

\* the model arms no timeout beyond MaxTimers pending ones
TimerRoom(s) ==
  s \in DOMAIN storageMap =>
    Cardinality({t \in timers[s] : t.h # storageMap[s].syncTimer}) < MaxTimers

(***************************************************************************)
(* Index updates of the note operations.  `storage` is the snapshot the     *)
(* operation read when it was called, `draft` the snapshot it commits to,   *)
(* `d` the document store after the operation's durable writes.             *)
(***************************************************************************)
Last(op, s, ok) == [op |-> op, sid |-> s, ok |-> ok]

\* the folder entry of a pathname with one more note id
FolderWith(storage, pathname, noteId) ==
  IF IsNull(storage.folderMap, pathname)
  THEN FolderEntry({noteId})
  ELSE FolderEntry(storage.folderMap[pathname].noteIdSet \cup {noteId})

\* the tag entries of a tag list, each with one more note id
TagsWith(storage, tags, noteId) ==
  [t \in tags |->
     IF IsNull(storage.tagMap, t)
     THEN TagEntry({noteId})
     ELSE TagEntry(storage.tagMap[t].noteIdSet \cup {noteId})]

\* the tag entries of a tag list, each without the note id
TagsWithout(storage, tags, noteId) ==
  [t \in tags |-> TagEntry(storage.tagMap[t].noteIdSet \ {noteId})]

\* ancestors of a pathname that the snapshot lacks and the store holds
ParentFoldersToRefresh(storage, d, pathname) ==
  StoreGetFoldersByPathnames(d,
    {p \in getAllParentFolderPathnames(pathname) : IsNull(storage.folderMap, p)})

EmptyFolders(pathnames) == [p \in pathnames |-> FolderEntry({})]

\* a tag of the note is neither in the snapshot nor in the store
TagLookupThrows(storage, d, tags) ==
  \E t \in tags : IsNull(storage.tagMap, t) /\ t \notin d.tags

createNoteCommit(draft, storage, d, noteId) ==
  LET noteDoc == d.notes[noteId]
      parents == ParentFoldersToRefresh(storage, d, noteDoc.folderPathname)
      folder == FolderWith(storage, noteDoc.folderPathname, noteId)
  IN  [draft EXCEPT
         !.noteMap = Put(@, noteId, noteDoc),
         !.folderMap = Put(Merge(@, EmptyFolders(parents)),
                           noteDoc.folderPathname, folder),
         !.tagMap = Merge(storage.tagMap, TagsWith(storage, noteDoc.tags, noteId))]

\* updateNote dereferences the indexed note and the entries of its removed tags
updateNoteThrows(storage, d, noteId) ==
  \/ noteId \notin DOMAIN storage.noteMap
  \/ \E t \in storage.noteMap[noteId].tags \ d.notes[noteId].tags :
       IsNull(storage.tagMap, t)
  \/ TagLookupThrows(storage, d, d.notes[noteId].tags)

updateNoteCommit(draft, storage, previousNoteDoc, d, noteId) ==
  LET noteDoc == d.notes[noteId]
      folderPathnameIsChanged ==
        previousNoteDoc.folderPathname # noteDoc.folderPathname
      previous ==
        IF /\ folderPathnameIsChanged
           /\ ~IsNull(storage.folderMap, previousNoteDoc.folderPathname)
        THEN [p \in {previousNoteDoc.folderPathname} |->
                FolderEntry(storage.folderMap[p].noteIdSet \ {noteId})]
        ELSE EmptyMap
      parents == ParentFoldersToRefresh(storage, d, noteDoc.folderPathname)
      folder == FolderWith(storage, noteDoc.folderPathname, noteId)
      removedTags ==
        TagsWithout(storage, storage.noteMap[noteId].tags \ noteDoc.tags, noteId)
      modifiedTags == TagsWith(storage, noteDoc.tags, noteId)
  IN  [draft EXCEPT
         !.noteMap = Put(@, noteId, noteDoc),
         !.folderMap = Put(Merge(Merge(@, previous), EmptyFolders(parents)),
                           noteDoc.folderPathname, folder),
         !.tagMap = Merge(Merge(storage.tagMap, removedTags), modifiedTags)]

trashNoteCommit(draft, storage, d, noteId) ==
  LET noteDoc == d.notes[noteId]
      folder ==
        IF ~IsNull(storage.folderMap, noteDoc.folderPathname)
        THEN FolderEntry(storage.folderMap[noteDoc.folderPathname].noteIdSet
                           \ {noteId})
        ELSE Undefined
      modifiedTags ==
        TagsWithout(storage,
                    {t \in noteDoc.tags : ~IsNull(storage.tagMap, t)}, noteId)
  IN  [draft EXCEPT
         !.noteMap = Put(@, noteId, noteDoc),
         !.folderMap = Put(@, noteDoc.folderPathname, folder),
         !.tagMap = Merge(storage.tagMap, modifiedTags)]

untrashNoteCommit(draft, storage, d, noteId) ==
  LET noteDoc == d.notes[noteId]
  IN  [draft EXCEPT
         !.noteMap = Put(@, noteId, noteDoc),
         !.folderMap = Put(@, noteDoc.folderPathname,
                           FolderWith(storage, noteDoc.folderPathname, noteId)),
         !.tagMap = Merge(storage.tagMap, TagsWith(storage, noteDoc.tags, noteId))]

\* purgeNote dereferences the indexed note, its folder entry and its tag entries
purgeNoteThrows(storage, noteId) ==
  \/ noteId \notin DOMAIN storage.noteMap
  \/ IsNull(storage.folderMap, storage.noteMap[noteId].folderPathname)
  \/ \E t \in storage.noteMap[noteId].tags : IsNull(storage.tagMap, t)

\* (variant) the purged note stays in the noteIdSet of its tags
purgeNoteCommitKeepTags(draft, storage, noteId) ==
  LET noteDoc == storage.noteMap[noteId]
      folder == FolderEntry(storage.folderMap[noteDoc.folderPathname].noteIdSet
                              \ {noteId})
  IN  [draft EXCEPT
         !.noteMap = Del(storage.noteMap, noteId),
         !.folderMap = Put(@, noteDoc.folderPathname, folder)]

purgeNoteCommit(draft, storage, noteId) ==
  LET noteDoc == storage.noteMap[noteId]
      folder == FolderEntry(storage.folderMap[noteDoc.folderPathname].noteIdSet
                              \ {noteId})
  IN  [draft EXCEPT
         !.noteMap = Del(storage.noteMap, noteId),
         !.folderMap = Put(@, noteDoc.folderPathname, folder),
         !.tagMap = Merge(storage.tagMap,
                          TagsWithout(storage, noteDoc.tags, noteId))]

(***************************************************************************)
(* Index updates of the folder and tag operations.                          *)
(***************************************************************************)
\* (variant) entries are inserted for the new folder and its ancestors whether
\* the snapshot has them or not
createFolderCommitAll(draft, storage, d, pathname) ==
  LET createdFolders ==
        {pathname} \cup
          StoreGetFoldersByPathnames(d, getAllParentFolderPathnames(pathname))
  IN  [draft EXCEPT !.folderMap = Merge(@, EmptyFolders(createdFolders))]

\* entries are inserted for the new folder and its ancestors where the
\* snapshot read at call time has none
createFolderCommit(draft, storage, d, pathname) ==
  LET createdFolders ==
        {pathname} \cup
          StoreGetFoldersByPathnames(d, getAllParentFolderPathnames(pathname))
      missing == {p \in createdFolders : IsNull(storage.folderMap, p)}
  IN  [draft EXCEPT !.folderMap = Merge(@, EmptyFolders(missing))]

\* the pathname and every key of the folder index below it
FolderKeysUnder(storage, pathname) ==
  {pathname} \cup
    {p \in DOMAIN storage.folderMap : StartsWith(p, pathname \o <<"/">>)}

\* the indexed notes filed under one of the pathnames
NotesFiledUnder(storage, pathnames) ==
  {n \in DOMAIN storage.noteMap : storage.noteMap[n].folderPathname \in pathnames}

\* removeFolder dereferences the tag entry of every tag of an affected note
removeFolderThrows(storage, pathname) ==
  \E n \in NotesFiledUnder(storage, FolderKeysUnder(storage, pathname)) :
    \E t \in storage.noteMap[n].tags : IsNull(storage.tagMap, t)

removeFolderCommit(draft, storage, pathname) ==
  LET deletedFolderPathnames == FolderKeysUnder(storage, pathname)
      affected == NotesFiledUnder(storage, deletedFolderPathnames)
      modifiedNotes ==
        [n \in affected |-> [storage.noteMap[n] EXCEPT !.trashed = TRUE]]
      affectedTags == UNION {storage.noteMap[n].tags : n \in affected}
      modifiedTags ==
        [t \in affectedTags |->
           TagEntry(storage.tagMap[t].noteIdSet
                      \ {n \in affected : t \in storage.noteMap[n].tags})]
  IN  [draft EXCEPT
         !.folderMap = [p \in (DOMAIN @) \ deletedFolderPathnames |-> @[p]],
         !.noteMap = Merge(@, modifiedNotes),
         !.tagMap = Merge(@, modifiedTags)]

removeTagCommit(draft, storage, tag) ==
  LET carrying == {n \in DOMAIN storage.noteMap : tag \in storage.noteMap[n].tags}
      modifiedNotes ==
        [n \in carrying |-> [storage.noteMap[n] EXCEPT !.tags = @ \ {tag}]]
  IN  [draft EXCEPT
         !.noteMap = Merge(@, modifiedNotes),
         !.tagMap = Del(storage.tagMap, tag)]

(***************************************************************************)
(* moveNoteToOtherStorage: a purge in the original storage and a create in  *)
(* the target storage, committed in one update of the registry.             *)
(***************************************************************************)
moveNoteOriginalCommit(draft, originalStorage, originalNote, noteId) ==
  LET tagDocs == {t \in originalNote.tags : ~IsNull(originalStorage.tagMap, t)}
      modifiedTags == TagsWithout(originalStorage, tagDocs, noteId)
      folderKnown ==
        ~IsNull(originalStorage.folderMap, originalNote.folderPathname)
      modifiedFolder ==
        IF folderKnown
        THEN [p \in {originalNote.folderPathname} |->
                FolderEntry(originalStorage.folderMap[p].noteIdSet \ {noteId})]
        ELSE EmptyMap
  IN  [draft EXCEPT
         !.noteMap = Del(originalStorage.noteMap, noteId),
         !.folderMap = Merge(@, modifiedFolder),
         !.tagMap = Merge(@, modifiedTags)]

moveNoteTargetCommit(draft, targetStorage, d, newId, targetFolderPathname) ==
  LET newNote == d.notes[newId]
      targetFolder == FolderWith(targetStorage, targetFolderPathname, newId)
      parents == ParentFoldersToRefresh(targetStorage, d, targetFolderPathname)
  IN  [draft EXCEPT
         !.noteMap = Put(@, newId, newNote),
         !.folderMap = Merge(Put(@, targetFolderPathname, targetFolder),
                             EmptyFolders(parents)),
         !.tagMap = Merge(@, TagsWith(targetStorage, newNote.tags, newId))]

(***************************************************************************)
(* The registry operations, each run from its call to its return.           *)
(***************************************************************************)
\* the operation returns after committing `map`, the store of s being `d`
Returns(s, d, map, l) ==
  LET q == queueSyncingStorage(map, timers, s, autoSyncDebounceWaitingTime)
  IN  /\ db' = [db EXCEPT ![s] = d]
      /\ storageMap' = q.map
      /\ timers' = q.timers
      /\ last' = l
      /\ steps' = steps + 1

\* (variant) the synchronization is queued although the operation aborts
AbortsQueued(s, d, l) ==
  LET q == queueSyncingStorage(storageMap, timers, s, autoSyncDebounceWaitingTime)
  IN  /\ db' = [db EXCEPT ![s] = d]
      /\ storageMap' = q.map
      /\ timers' = q.timers
      /\ last' = l
      /\ steps' = steps + 1

\* the operation throws, or returns early, after the store of s became `d`
Aborts(s, d, l) ==
  /\ db' = [db EXCEPT ![s] = d]
  /\ last' = l
  /\ steps' = steps + 1
  /\ UNCHANGED <<storageMap, timers>>

Callable(s) ==
  /\ Idle
  /\ steps < MaxSteps
  /\ s \in DOMAIN storageMap
  /\ TimerRoom(s)

CreateNote(s, props) ==
  /\ Callable(s)
  /\ noteCount < MaxNotes
  /\ LET noteId == noteCount + 1
         d == StoreCreateNote(db[s], noteId, props)
         l == Last("createNote", s, TRUE)
     IN  /\ Returns(s, d,
                    [storageMap EXCEPT
                       ![s] = createNoteCommit(@, storageMap[s], d, noteId)], l)
         /\ noteCount' = noteId
  /\ UNCHANGED <<sessions, enableAutoSync, rename, calls>>
  /\ UNCHANGED saved

UpdateNote(s, noteId, props) ==
  /\ Callable(s)
  /\ LET storage == storageMap[s]
         l(ok) == Last("updateNote", s, ok)
     IN  IF ~StoreGetNote(db[s], noteId)
         THEN Aborts(s, db[s], l(FALSE))
         ELSE LET previousNoteDoc == db[s].notes[noteId]
                  d == StoreUpdateNote(db[s], noteId, props)
              IN  IF updateNoteThrows(storage, d, noteId)
                  THEN Aborts(s, d, l(FALSE))
                  ELSE Returns(s, d,
                         [storageMap EXCEPT
                            ![s] = updateNoteCommit(@, storage, previousNoteDoc,
                                                    d, noteId)], l(TRUE))
  /\ UNCHANGED <<sessions, enableAutoSync, rename, noteCount, calls>>
  /\ UNCHANGED saved

TrashNote(s, noteId) ==
  /\ Callable(s)
  /\ LET l(ok) == Last("trashNote", s, ok)
     IN  IF ~StoreGetNote(db[s], noteId)
         THEN Aborts(s, db[s], l(FALSE))
         ELSE LET d == StoreTrashNote(db[s], noteId)
              IN  Returns(s, d,
                    [storageMap EXCEPT
                       ![s] = trashNoteCommit(@, storageMap[s], d, noteId)],
                    l(TRUE))
  /\ UNCHANGED <<sessions, enableAutoSync, rename, noteCount, calls>>
  /\ UNCHANGED saved

UntrashNote(s, noteId) ==
  /\ Callable(s)
  /\ LET l(ok) == Last("untrashNote", s, ok)
     IN  IF ~StoreGetNote(db[s], noteId)
         THEN Aborts(s, db[s], l(FALSE))
         ELSE LET d == StoreUntrashNote(db[s], noteId)
              IN  Returns(s, d,
                    [storageMap EXCEPT
                       ![s] = untrashNoteCommit(@, storageMap[s], d, noteId)],
                    l(TRUE))
  /\ UNCHANGED <<sessions, enableAutoSync, rename, noteCount, calls>>
  /\ UNCHANGED saved

PurgeNote(s, noteId) ==
  /\ Callable(s)
  /\ LET storage == storageMap[s]
         l(ok) == Last("purgeNote", s, ok)
     IN  IF ~StoreGetNote(db[s], noteId)
         THEN Aborts(s, db[s], l(FALSE))
         ELSE LET d == StorePurgeNote(db[s], noteId)
              IN  IF purgeNoteThrows(storage, noteId)
                  THEN Aborts(s, d, l(FALSE))
                  ELSE Returns(s, d,
                         [storageMap EXCEPT
                            ![s] = purgeNoteCommit(@, storage, noteId)], l(TRUE))
  /\ UNCHANGED <<sessions, enableAutoSync, rename, noteCount, calls>>
  /\ UNCHANGED saved

CreateFolder(s, pathname) ==
  /\ Callable(s)
  /\ LET d == StoreCreateFolder(db[s], pathname)
     IN  Returns(s, d,
           [storageMap EXCEPT
              ![s] = createFolderCommit(@, storageMap[s], d, pathname)],
           Last("createFolder", s, TRUE))
  /\ UNCHANGED <<sessions, enableAutoSync, rename, noteCount, calls>>
  /\ UNCHANGED saved

RemoveFolder(s, pathname) ==
  /\ Callable(s)
  /\ LET storage == storageMap[s]
         d == StoreRemoveFolder(db[s], pathname)
         l(ok) == Last("removeFolder", s, ok)
     IN  IF removeFolderThrows(storage, pathname)
         THEN Aborts(s, d, l(FALSE))
         ELSE Returns(s, d,
                [storageMap EXCEPT
                   ![s] = removeFolderCommit(@, storage, pathname)], l(TRUE))
  /\ UNCHANGED <<sessions, enableAutoSync, rename, noteCount, calls>>
  /\ UNCHANGED saved

RemoveTag(s, tag) ==
  /\ Callable(s)
  /\ LET d == StoreRemoveTag(db[s], tag)
     IN  Returns(s, d,
           [storageMap EXCEPT ![s] = removeTagCommit(@, storageMap[s], tag)],
           Last("removeTag", s, TRUE))
  /\ UNCHANGED <<sessions, enableAutoSync, rename, noteCount, calls>>
  /\ UNCHANGED saved

MoveNoteToOtherStorage(o, noteId, t, targetFolderPathname) ==
  /\ Callable(o)
  /\ t \in DOMAIN storageMap
  /\ TimerRoom(t)
  /\ LET l(ok) == Last("moveNote", o, ok)
     IN  IF ~StoreGetNote(db[o], noteId)
         THEN /\ Aborts(o, db[o], l(FALSE))
              /\ UNCHANGED noteCount
         ELSE /\ noteCount < MaxNotes
              /\ LET originalNote == db[o].notes[noteId]
                     newId == noteCount + 1
                     created ==
                       [db EXCEPT
                          ![t] = StoreCreateNote(@, newId,
                                   [folderPathname |-> targetFolderPathname,
                                    tags |-> originalNote.tags])]
                     stores == [created EXCEPT ![o] = StorePurgeNote(@, noteId)]
                     original ==
                       [storageMap EXCEPT
                          ![o] = moveNoteOriginalCommit(@, storageMap[o],
                                                        originalNote, noteId)]
                     moved ==
                       [original EXCEPT
                          ![t] = moveNoteTargetCommit(@, storageMap[t], stores[t],
                                                      newId, targetFolderPathname)]
                     q1 == queueSyncingStorage(moved, timers, o, autoSyncDebounceWaitingTime)
                     q2 == IF o # t
                           THEN queueSyncingStorage(q1.map, q1.timers, t,
                                                    autoSyncDebounceWaitingTime)
                           ELSE q1
                 IN  /\ db' = stores
                     /\ storageMap' = q2.map
                     /\ timers' = q2.timers
                     /\ noteCount' = newId
                     /\ last' = l(TRUE)
                     /\ steps' = steps + 1
  /\ UNCHANGED <<sessions, enableAutoSync, rename, calls>>
  /\ UNCHANGED saved

(***************************************************************************)
(* renameFolder.  The call starts one callback per folder of the subtree    *)
(* (Promise.all); a callback first validates its folder, then writes.  The  *)
(* callbacks interleave at their awaits.  A callback that throws rejects    *)
(* the call at once; the other callbacks run on.                            *)
(***************************************************************************)
RenameFolderCall(s, pathname, newPathname) ==
  /\ Callable(s)
  /\ isFolderPathnameValid(pathname)
  /\ isFolderPathnameValid(newPathname)
  /\ LET storage == storageMap[s]
         allFoldersToRename == FolderKeysUnder(storage, pathname)
     IN  rename' = [active |-> TRUE,
                    sid |-> s,
                    storage |-> storage,
                    pathname |-> pathname,
                    newPathname |-> newPathname,
                    cb |-> [f \in allFoldersToRename |-> "check"],
                    folderListToRefresh |-> EmptyMap,
                    notesListToRefresh |-> EmptyMap,
                    rejected |-> FALSE,
                    db0 |-> db[s],
                    map0 |-> storageMap]
  /\ steps' = steps + 1
  /\ UNCHANGED <<storageMap, db, timers, sessions, enableAutoSync, noteCount, last, calls>>
  /\ UNCHANGED saved

NewFolderPathname(f) == ReplacePrefix(f, rename.pathname, rename.newPathname)

\* (variant) the callback does not compare the numbers of segments
RenameCheckFailsNoDepth(d, f) ==
  \/ ~StoreGetFolder(d, f)
  \/ StoreGetFolder(d, NewFolderPathname(f))

\* the checks a callback makes before it writes
RenameCheckFails(d, f) ==
  \/ ~StoreGetFolder(d, f)
  \/ StoreGetFolder(d, NewFolderPathname(f))
  \/ SplitLength(f) # SplitLength(NewFolderPathname(f))

RenameFolderCheck(f) ==
  /\ rename.active
  /\ f \in DOMAIN rename.cb
  /\ rename.cb[f] = "check"
  /\ IF RenameCheckFails(db[rename.sid], f)
     THEN /\ rename' = [rename EXCEPT !.cb[f] = "failed", !.rejected = TRUE]
          /\ last' = IF rename.rejected THEN last
                     ELSE Last("renameFolder", rename.sid, FALSE)
     ELSE /\ rename' = [rename EXCEPT !.cb[f] = "write"]
          /\ UNCHANGED last
  /\ UNCHANGED <<storageMap, db, timers, sessions, enableAutoSync, noteCount, steps, calls>>
  /\ UNCHANGED saved

\* the store after a callback's writes: the new folder, and its notes refiled
RenameWriteStore(d, f) ==
  LET notes == StoreFindNotesByFolder(d, f)
      new == NewFolderPathname(f)
      created == StoreCreateFolder(d, new)
  IN  [created EXCEPT
         !.notes = [n \in DOMAIN @ |->
                      IF n \in notes
                      THEN [@[n] EXCEPT !.folderPathname = new] ELSE @[n]]]

RenameFolderWrite(f) ==
  /\ rename.active
  /\ f \in DOMAIN rename.cb
  /\ rename.cb[f] = "write"
  /\ LET s == rename.sid
         notes == StoreFindNotesByFolder(db[s], f)
         d == RenameWriteStore(db[s], f)
     IN  IF StoreCreateFolderThrows(NewFolderPathname(f))
         THEN /\ rename' = [rename EXCEPT !.cb[f] = "failed", !.rejected = TRUE]
              /\ last' = IF rename.rejected THEN last
                         ELSE Last("renameFolder", s, FALSE)
              /\ UNCHANGED db
         ELSE /\ db' = [db EXCEPT ![s] = d]
              /\ rename' =
                   [rename EXCEPT
                      !.cb[f] = "done",
                      !.folderListToRefresh =
                         Put(@, NewFolderPathname(f), FolderEntry(notes)),
                      !.notesListToRefresh =
                         Merge(@, [n \in notes |-> d.notes[n]])]
              /\ UNCHANGED last
  /\ UNCHANGED <<storageMap, timers, sessions, enableAutoSync, noteCount, steps, calls>>
  /\ UNCHANGED saved

renameFolderCommit(draft, r) ==
  [draft EXCEPT
     !.noteMap = Merge(@, r.notesListToRefresh),
     !.folderMap = [p \in (DOMAIN Merge(@, r.folderListToRefresh))
                            \ (DOMAIN r.cb) |->
                      Merge(@, r.folderListToRefresh)[p]]]

\* every callback has resolved: the old folders are removed and the index committed
RenameFolderReturn ==
  /\ rename.active
  /\ ~rename.rejected
  /\ \A f \in DOMAIN rename.cb : rename.cb[f] = "done"
  /\ LET s == rename.sid
         d == StoreRemoveFolder(db[s], rename.pathname)
         map == [storageMap EXCEPT ![s] = renameFolderCommit(@, rename)]
         q == queueSyncingStorage(map, timers, s, autoSyncDebounceWaitingTime)
     IN  /\ db' = [db EXCEPT ![s] = d]
         /\ storageMap' = q.map
         /\ timers' = q.timers
         /\ last' = Last("renameFolder", s, TRUE)
  /\ rename' = NoRename
  /\ UNCHANGED <<sessions, enableAutoSync, noteCount, steps, calls>>
  /\ UNCHANGED saved

\* the call was rejected and its last callback has finished
RenameFolderSettled ==
  /\ rename.active
  /\ rename.rejected
  /\ \A f \in DOMAIN rename.cb : rename.cb[f] \in {"done", "failed"}
  /\ rename' = NoRename
  /\ UNCHANGED <<storageMap, db, timers, sessions, enableAutoSync, noteCount,
                 last, steps, calls>>
  /\ UNCHANGED saved

(***************************************************************************)
(* Specification of the index: two registered storages, and the registry    *)
(* operations called one after the other.                                   *)
(***************************************************************************)
\* stores a storage can hold when the registry is initialized
RootStore == StoreCreateFolder(EmptyStore, Root)
FoldersStore == [RootStore EXCEPT !.folders = Paths]
\* a store that holds note 0, filed under "/a/c" and tagged "t"
FiledStore ==
  StoreCreateNote(FoldersStore, 0, [folderPathname |-> PAC, tags |-> {"t"}])
InitStores == {EmptyStore, RootStore, FoldersStore, FiledStore}

Init ==
  /\ db \in [StorageIds -> InitStores]
  /\ db["T"] = EmptyStore
  /\ storageMap = [s \in StorageIds |-> prepareStorage(s, NoCloud, db[s])]
  /\ timers = [s \in StorageIds |-> {}]
  /\ sessions = [s \in StorageIds |-> {}]
  /\ enableAutoSync = TRUE
  /\ noteCount = 0
  /\ rename = NoRename
  /\ last = NoOp
  /\ steps = 0
  /\ calls = NoCalls
  /\ saved = saveStorageDataList(storageMap)

\* the storage the note, folder and tag operations are called on; the other
\* storage is the source or the target of moved notes
CalledOn == {"S"}
\* the note ids the operations are called with: the note a store can hold at
\* initialization and the ids generated so far
Generated == 0..noteCount

Next ==
  \/ \E s \in CalledOn, props \in CreateProps : CreateNote(s, props)
  \/ \E s \in CalledOn, n \in Generated, props \in UpdateProps : UpdateNote(s, n, props)
  \/ \E s \in CalledOn, n \in Generated : TrashNote(s, n)
  \/ \E s \in CalledOn, n \in Generated : UntrashNote(s, n)
  \/ \E s \in CalledOn, n \in Generated : PurgeNote(s, n)
  \/ \E s \in CalledOn, p \in Paths : CreateFolder(s, p)
  \/ \E s \in CalledOn, p \in Paths : RemoveFolder(s, p)
  \/ \E s \in CalledOn, t \in TagNames : RemoveTag(s, t)
  \/ \E o \in StorageIds, t \in StorageIds, n \in Generated, p \in Paths :
       (o \in CalledOn \/ t \in CalledOn) /\ MoveNoteToOtherStorage(o, n, t, p)
  \/ \E s \in CalledOn, p \in Paths, np \in NewPaths : RenameFolderCall(s, p, np)
  \/ \E f \in DOMAIN rename.cb : RenameFolderCheck(f)
  \/ \E f \in DOMAIN rename.cb : RenameFolderWrite(f)
  \/ RenameFolderReturn
  \/ RenameFolderSettled

Spec == Init /\ [][Next]_vars

(***************************************************************************)
(* The scheduler of background replication: the calls of the registry, the  *)
(* expiry of a timeout, and the events of a replication session.            *)
(***************************************************************************)
SessionRoom(s) == Cardinality(sessions[s]) < MaxSessions

QueueSyncingStorage(s, delay) ==
  /\ TimerRoom(s)
  /\ LET q == queueSyncingStorage(storageMap, timers, s, delay)
     IN  /\ storageMap' = q.map
         /\ timers' = q.timers
  /\ last' = Last("queueSyncingStorage", s, enableAutoSync)
  /\ UNCHANGED <<db, sessions, enableAutoSync, noteCount, rename, steps, calls>>
  /\ UNCHANGED saved

CancelSyncingStorageQueue(s) ==
  /\ LET q == cancelSyncingStorageQueue(storageMap, timers, s)
     IN  /\ storageMap' = q.map
         /\ timers' = q.timers
  /\ last' = Last("cancelSyncingStorageQueue", s, TRUE)
  /\ UNCHANGED <<db, sessions, enableAutoSync, noteCount, rename, steps, calls>>
  /\ UNCHANGED saved

\* a manual call; `ok` records whether a session was started
SyncStorage(s) ==
  /\ SessionRoom(s)
  /\ LET y == syncStorage(storageMap, sessions, s, FALSE)
     IN  /\ storageMap' = y.map
         /\ sessions' = y.sessions
         /\ last' = Last("syncStorage", s, y.sessions # sessions)
  /\ UNCHANGED <<db, timers, enableAutoSync, noteCount, rename, steps, calls>>
  /\ UNCHANGED saved

\* a pending timeout expires: syncStorage(id, true), then queueSyncingStorage(id)
TimerFire(s, t) ==
  /\ t \in timers[s]
  /\ SessionRoom(s)
  /\ LET y == syncStorage(storageMap, sessions, s, TRUE)
         q == queueSyncingStorage(y.map, [timers EXCEPT ![s] = @ \ {t}], s,
                                  autoSyncIntervalTime)
     IN  /\ storageMap' = q.map
         /\ timers' = q.timers
         /\ sessions' = y.sessions
         /\ last' = Last("timerFire", s, y.sessions # sessions)
  /\ UNCHANGED <<db, enableAutoSync, noteCount, rename, steps, calls>>
  /\ UNCHANGED saved

\* (variant) the registered storage keeps its session handle
SessionCompleteKeepsHandle(s, x) ==
  /\ x \in sessions[s]
  /\ sessions' = [sessions EXCEPT ![s] = @ \ {x}]
  /\ IF prepareStorageThrows(db[s]) \/ s \notin DOMAIN storageMap
     THEN UNCHANGED storageMap
     ELSE storageMap' =
            [storageMap EXCEPT
               ![s] = [prepareStorage(x.name,
                                      [x.cloudStorage EXCEPT !.synced = TRUE],
                                      db[s])
                         EXCEPT !.sync = storageMap[s].sync]]
  /\ UNCHANGED <<db, timers, enableAutoSync, noteCount, rename, last, steps, calls>>
  /\ saved' = IF prepareStorageThrows(db[s]) THEN saved
            ELSE saveStorageDataList(storageMap')

\* (variant) the prepared storage is committed whether the storage is still
\* registered or not
SessionCompleteInserts(s, x) ==
  /\ x \in sessions[s]
  /\ sessions' = [sessions EXCEPT ![s] = @ \ {x}]
  /\ IF prepareStorageThrows(db[s])
     THEN UNCHANGED storageMap
     ELSE storageMap' =
            Put(storageMap, s,
                prepareStorage(x.name, [x.cloudStorage EXCEPT !.synced = TRUE],
                               db[s]))
  /\ UNCHANGED <<db, timers, enableAutoSync, noteCount, rename, last, steps, calls>>
  /\ saved' = IF prepareStorageThrows(db[s]) THEN saved
            ELSE saveStorageDataList(storageMap')

\* the 'complete' event: the index is rebuilt from the captured storage and
\* replaces the registered one
SessionComplete(s, x) ==
  /\ x \in sessions[s]
  /\ sessions' = [sessions EXCEPT ![s] = @ \ {x}]
  /\ IF prepareStorageThrows(db[s]) \/ s \notin DOMAIN storageMap
     THEN UNCHANGED storageMap
     ELSE storageMap' =
            [storageMap EXCEPT
               ![s] = prepareStorage(x.name,
                                     [x.cloudStorage EXCEPT !.synced = TRUE],
                                     db[s])]
  /\ UNCHANGED <<db, timers, enableAutoSync, noteCount, rename, last, steps, calls>>
  /\ saved' = IF prepareStorageThrows(db[s]) THEN saved
            ELSE saveStorageDataList(storageMap')

\* (variant) the handle is not reset
SessionErrorKeepsHandle(s, x, status) ==
  /\ x \in sessions[s]
  /\ s \in DOMAIN storageMap
  /\ sessions' = [sessions EXCEPT ![s] = @ \ {x}]
  /\ storageMap' =
       (CASE status = 409 -> unlinkStorage(unlinkStorage(storageMap, s), s)
          [] status = 404 -> unlinkStorage(storageMap, s)
          [] OTHER -> storageMap)
  /\ UNCHANGED <<db, timers, enableAutoSync, noteCount, rename, last, steps, calls>>
  /\ saved' = IF status \in {404, 409}
            THEN saveStorageDataList(unlinkStorage(storageMap, s))
            ELSE saved

\* the 'error' event: 409 and 404 unlink the storage; the handle is reset
SessionError(s, x, status) ==
  /\ x \in sessions[s]
  /\ s \in DOMAIN storageMap
  /\ sessions' = [sessions EXCEPT ![s] = @ \ {x}]
  /\ LET unlinked ==
           CASE status = 409 -> unlinkStorage(unlinkStorage(storageMap, s), s)
             [] status = 404 -> unlinkStorage(storageMap, s)
             [] OTHER -> storageMap
     IN  storageMap' = [unlinked EXCEPT ![s].sync = 0]
  /\ UNCHANGED <<db, timers, enableAutoSync, noteCount, rename, last, steps, calls>>
  /\ saved' = IF status \in {404, 409}
            THEN saveStorageDataList(unlinkStorage(storageMap, s))
            ELSE saved

\* (variant) the descriptors are not saved
NotSaved(map, s) == saved

\* The descriptors saved by an operation on s that has produced `map`.  For an
\* unregistered id the updater of linkStorage and unlinkStorage leaves
\* newStorageMap unassigned, values(undefined) throws and nothing is saved.
Saved(map, s) ==
  IF s \in DOMAIN storageMap THEN saveStorageDataList(map) ELSE saved

LinkStorage(s, cloudStorage) ==
  /\ storageMap' = linkStorage(storageMap, s, cloudStorage)
  /\ last' = Last("linkStorage", s, s \in DOMAIN storageMap)
  /\ UNCHANGED <<db, timers, sessions, enableAutoSync, noteCount, rename, steps, calls>>
  /\ saved' = Saved(storageMap', s)

UnlinkStorage(s) ==
  /\ storageMap' = unlinkStorage(storageMap, s)
  /\ last' = Last("unlinkStorage", s, s \in DOMAIN storageMap)
  /\ UNCHANGED <<db, timers, sessions, enableAutoSync, noteCount, rename, steps, calls>>
  /\ saved' = Saved(storageMap', s)

\* the preference general.enableAutoSync changes and the effect runs
ToggleAutoSync ==
  /\ \A s \in DOMAIN storageMap : TimerRoom(s)
  /\ enableAutoSync' = ~enableAutoSync
  /\ LET q == IF enableAutoSync'
              THEN queueSyncingAllStorage(storageMap, timers, DOMAIN storageMap,
                                          autoSyncIntervalTime)
              ELSE cancelAllSyncingStorageQueue(storageMap, timers,
                                                DOMAIN storageMap)
     IN  /\ storageMap' = q.map
         /\ timers' = q.timers
  /\ last' = Last("enableAutoSync", "all", enableAutoSync')
  /\ UNCHANGED <<db, sessions, noteCount, rename, steps, calls>>
  /\ UNCHANGED saved

\* removeAttachment: the attachment map is not part of the modelled index, so
\* what the call leaves in the model is the timeout it arms
RemoveAttachment(s) ==
  /\ s \in DOMAIN storageMap
  /\ TimerRoom(s)
  /\ LET q == queueSyncingStorage(storageMap, timers, s, autoSyncDebounceWaitingTime)
     IN  /\ storageMap' = q.map
         /\ timers' = q.timers
  /\ last' = Last("removeAttachment", s, TRUE)
  /\ UNCHANGED <<db, sessions, enableAutoSync, noteCount, rename, steps, calls>>
  /\ UNCHANGED saved

Delays == {autoSyncDebounceWaitingTime, autoSyncIntervalTime}
Statuses == {404, 409, 500}

InitSync ==
  /\ db = [s \in StorageIds |-> RootStore]
  /\ \E cloud \in [StorageIds -> {NoCloud, Linked}] :
       /\ cloud["T"] = NoCloud
       /\ storageMap = [s \in StorageIds |-> prepareStorage(s, cloud[s], db[s])]
  /\ timers = [s \in StorageIds |-> {}]
  /\ sessions = [s \in StorageIds |-> {}]
  /\ enableAutoSync = TRUE
  /\ noteCount = 0
  /\ rename = NoRename
  /\ last = NoOp
  /\ steps = 0
  /\ calls = NoCalls
  /\ saved = saveStorageDataList(storageMap)

NextSync ==
  \/ \E s \in CalledOn, delay \in Delays : QueueSyncingStorage(s, delay)
  \/ \E s \in CalledOn : CancelSyncingStorageQueue(s)
  \/ \E s \in CalledOn : SyncStorage(s)
  \/ \E s \in StorageIds : \E t \in timers[s] : TimerFire(s, t)
  \/ \E s \in StorageIds : \E x \in sessions[s] : SessionComplete(s, x)
  \/ \E s \in StorageIds : \E x \in sessions[s], status \in Statuses :
       SessionError(s, x, status)
  \/ \E s \in CalledOn : LinkStorage(s, Linked)
  \/ \E s \in CalledOn : UnlinkStorage(s)
  \/ ToggleAutoSync
  \/ \E s \in CalledOn : RemoveAttachment(s)

SpecSync == InitSync /\ [][NextSync]_vars

(***************************************************************************)
(* Overlapping calls.  A call reads the snapshot of its storage when it is  *)
(* made, awaits the document store, and commits later; another call can be  *)
(* made in between.  createNote, updateNote and createFolder are split into *)
(* the call (up to the last await) and the commit (setStorageMap).          *)
(***************************************************************************)
CallRoom(s) ==
  /\ Len(calls.ops) < MaxCalls
  /\ s \in DOMAIN storageMap

\* the call is recorded; it stays open unless it has thrown
Called(c, threw) ==
  calls' = [ops |-> Append(calls.ops,
                           c @@ [threw |-> threw, overlaps |-> calls.open # {}]),
            open |-> IF threw THEN calls.open
                     ELSE calls.open \cup {Len(calls.ops) + 1}]

CreateNoteCall(s, props) ==
  /\ CallRoom(s)
  /\ noteCount < MaxNotes
  /\ LET noteId == noteCount + 1
         d == StoreCreateNote(db[s], noteId, props)
     IN  /\ db' = [db EXCEPT ![s] = d]
         /\ noteCount' = noteId
         /\ Called([op |-> "createNote", sid |-> s, storage |-> storageMap[s],
                    d |-> d, noteId |-> noteId, props |-> props], FALSE)
  /\ UNCHANGED <<storageMap, timers, sessions, enableAutoSync, rename, last, steps>>
  /\ UNCHANGED saved

UpdateNoteCall(s, noteId, props) ==
  /\ CallRoom(s)
  /\ StoreGetNote(db[s], noteId)
  /\ LET d == StoreUpdateNote(db[s], noteId, props)
     IN  /\ db' = [db EXCEPT ![s] = d]
         /\ Called([op |-> "updateNote", sid |-> s, storage |-> storageMap[s],
                    d |-> d, noteId |-> noteId, props |-> props,
                    previousNoteDoc |-> db[s].notes[noteId]],
                   updateNoteThrows(storageMap[s], d, noteId))
  /\ UNCHANGED <<storageMap, timers, sessions, enableAutoSync, noteCount, rename,
                 last, steps>>
  /\ UNCHANGED saved

CreateFolderCall(s, pathname) ==
  /\ CallRoom(s)
  /\ LET d == StoreCreateFolder(db[s], pathname)
     IN  /\ db' = [db EXCEPT ![s] = d]
         /\ Called([op |-> "createFolder", sid |-> s, storage |-> storageMap[s],
                    d |-> d, pathname |-> pathname], FALSE)
  /\ UNCHANGED <<storageMap, timers, sessions, enableAutoSync, noteCount, rename,
                 last, steps>>
  /\ UNCHANGED saved

\* the snapshot a call commits, given the snapshot it finds
CommitOf(draft, c) ==
  CASE c.op = "createNote" -> createNoteCommit(draft, c.storage, c.d, c.noteId)
    [] c.op = "updateNote" ->
         updateNoteCommit(draft, c.storage, c.previousNoteDoc, c.d, c.noteId)
    [] c.op = "createFolder" -> createFolderCommit(draft, c.storage, c.d, c.pathname)

\* setStorageMap of an open call, and the queueSyncingStorage that follows it
CommitCall(i) ==
  /\ i \in calls.open
  /\ LET c == calls.ops[i]
         s == c.sid
         q == queueSyncingStorage(
                [storageMap EXCEPT ![s] = CommitOf(@, c)], timers, s, autoSyncDebounceWaitingTime)
     IN  /\ TimerRoom(s)
         /\ storageMap' = q.map
         /\ timers' = q.timers
         /\ last' = Last(c.op, s, TRUE)
  /\ calls' = [calls EXCEPT !.open = @ \ {i}]
  /\ UNCHANGED <<db, sessions, enableAutoSync, noteCount, rename, steps>>
  /\ UNCHANGED saved

\* a store that holds note 0, filed under "/a" and tagged "t"
NoteStore ==
  StoreCreateNote(RootStore, 0, [folderPathname |-> PA, tags |-> {"t"}])

InitOverlapStore(s) == IF s \in CalledOn THEN NoteStore ELSE EmptyStore

InitOverlap ==
  /\ db = [s \in StorageIds |-> InitOverlapStore(s)]
  /\ storageMap = [s \in StorageIds |-> prepareStorage(s, NoCloud, db[s])]
  /\ timers = [s \in StorageIds |-> {}]
  /\ sessions = [s \in StorageIds |-> {}]
  /\ enableAutoSync = TRUE
  /\ noteCount = 0
  /\ rename = NoRename
  /\ last = NoOp
  /\ steps = 0
  /\ calls = NoCalls
  /\ saved = saveStorageDataList(storageMap)

NextOverlap ==
  \/ \E s \in CalledOn, props \in CreateProps : CreateNoteCall(s, props)
  \/ \E s \in CalledOn, n \in 0..noteCount, props \in UpdateProps :
       UpdateNoteCall(s, n, props)
  \/ \E s \in CalledOn, p \in Paths : CreateFolderCall(s, p)
  \/ \E i \in calls.open : CommitCall(i)

SpecOverlap == InitOverlap /\ [][NextOverlap]_vars

(***************************************************************************)
(* Calls on different storages: the split calls, and purgeNote and          *)
(* trashNote, on each of two storages whose stores hold a note.             *)
(***************************************************************************)
\* the number of trashNote and purgeNote calls made among the split calls
MaxApart == 1

InitApart ==
  /\ db = [s \in StorageIds |-> NoteStore]
  /\ storageMap = [s \in StorageIds |-> prepareStorage(s, NoCloud, db[s])]
  /\ timers = [s \in StorageIds |-> {}]
  /\ sessions = [s \in StorageIds |-> {}]
  /\ enableAutoSync = TRUE
  /\ noteCount = 0
  /\ rename = NoRename
  /\ last = NoOp
  /\ steps = 0
  /\ calls = NoCalls
  /\ saved = saveStorageDataList(storageMap)

NextApart ==
  \/ \E s \in StorageIds, props \in CreateProps : CreateNoteCall(s, props)
  \/ \E s \in StorageIds, n \in 0..noteCount, props \in UpdateProps :
       UpdateNoteCall(s, n, props)
  \/ \E s \in StorageIds, p \in Paths : CreateFolderCall(s, p)
  \/ \E i \in calls.open : CommitCall(i)
  \/ \E s \in StorageIds, n \in 0..noteCount : steps < MaxApart /\ TrashNote(s, n)
  \/ \E s \in StorageIds, n \in 0..noteCount : steps < MaxApart /\ PurgeNote(s, n)

SpecApart == InitApart /\ [][NextApart]_vars

(***************************************************************************)
(* Every mutating operation of the registry, with automatic                 *)
(* synchronization enabled.                                                 *)
(***************************************************************************)
\* updateFolder: the store updates fields of the folder record that are not
\* part of the modelled record; nothing is committed to the registry and no
\* synchronization is queued
UpdateFolder(s, pathname) ==
  /\ Callable(s)
  /\ last' = Last("updateFolder", s, StoreGetFolder(db[s], pathname))
  /\ steps' = steps + 1
  /\ UNCHANGED <<storageMap, db, timers, sessions, enableAutoSync, noteCount,
                 rename, calls>>
  /\ UNCHANGED saved

\* addAttachments: the attachment map is not part of the modelled index, so
\* what is left of the operation is the synchronization it queues
AddAttachments(s) ==
  /\ Callable(s)
  /\ LET q == queueSyncingStorage(storageMap, timers, s, autoSyncDebounceWaitingTime)
     IN  /\ storageMap' = q.map
         /\ timers' = q.timers
  /\ last' = Last("addAttachments", s, TRUE)
  /\ steps' = steps + 1
  /\ UNCHANGED <<db, sessions, enableAutoSync, noteCount, rename, calls>>
  /\ UNCHANGED saved

NextMutations ==
  \/ Next
  \/ \E s \in CalledOn, p \in Paths : UpdateFolder(s, p)
  \/ \E s \in CalledOn : AddAttachments(s)
  \/ \E s \in CalledOn : Idle /\ steps < MaxSteps /\ RemoveAttachment(s)

SpecMutations == Init /\ [][NextMutations]_vars

(***************************************************************************)
(* Specification of aborted calls: operations called with a storage id that *)
(* is not registered or with a note id the store does not hold, among       *)
(* operations that change the index.                                        *)
(***************************************************************************)
\* a storage id that is never registered
UnknownIds == {"U"}
AnyIds == StorageIds \cup UnknownIds

\* the operations that return at once when storageMap[storageId] is null
NullStorageOps ==
  {"createFolder", "renameFolder", "updateFolder", "removeFolder", "createNote",
   "updateNote", "trashNote", "untrashNote", "purgeNote", "removeTag",
   "addAttachments", "removeAttachment"}

NullStorageReturn(op, s) ==
  /\ Idle
  /\ steps < MaxSteps
  /\ s \notin DOMAIN storageMap
  /\ last' = Last(op, s, FALSE)
  /\ steps' = steps + 1
  /\ UNCHANGED <<storageMap, db, timers, sessions, enableAutoSync, noteCount,
                 rename, calls>>
  /\ UNCHANGED saved

\* moveNoteToOtherStorage throws when either storage is not registered
MoveNoteNullStorage(o, t) ==
  /\ Idle
  /\ steps < MaxSteps
  /\ o \notin DOMAIN storageMap \/ t \notin DOMAIN storageMap
  /\ last' = Last("moveNote", o, FALSE)
  /\ steps' = steps + 1
  /\ UNCHANGED <<storageMap, db, timers, sessions, enableAutoSync, noteCount,
                 rename, calls>>
  /\ UNCHANGED saved

NextAbort ==
  \/ \E s \in CalledOn, props \in CreateProps : CreateNote(s, props)
  \/ \E s \in CalledOn, n \in Generated, props \in UpdateProps : UpdateNote(s, n, props)
  \/ \E s \in CalledOn, n \in Generated : TrashNote(s, n)
  \/ \E s \in CalledOn, n \in Generated : PurgeNote(s, n)
  \/ \E o \in StorageIds, t \in StorageIds, n \in Generated, p \in Paths :
       (o \in CalledOn \/ t \in CalledOn) /\ MoveNoteToOtherStorage(o, n, t, p)
  \/ \E op \in NullStorageOps, s \in AnyIds : NullStorageReturn(op, s)
  \/ \E o \in AnyIds, t \in AnyIds : MoveNoteNullStorage(o, t)

SpecAbort == Init /\ [][NextAbort]_vars

(***************************************************************************)
(* Specification of failing store calls: notes are created, and any         *)
(* operation may reject because a call of the document store failed.        *)
(***************************************************************************)
\* A call of the document store fails (the promise it returned rejects) and
\* the operation rejects with it.  A call that writes fails without writing;
\* `d` is the store as the calls made before the failing one left it.
StoreCallFails(s, op, d) ==
  /\ Callable(s)
  /\ Aborts(s, d, Last(op, s, FALSE))
  /\ UNCHANGED <<sessions, enableAutoSync, rename, noteCount, calls>>
  /\ UNCHANGED saved

\* the operations whose first store call is their only one that writes
WritingOps ==
  {"createFolder", "updateFolder", "removeFolder", "trashNote", "untrashNote",
   "purgeNote", "removeTag", "addAttachments", "removeAttachment"}

\* createNote: db.createNote fails, or a later getFoldersByPathnames, getFolder
\* or getTag fails when the note is written
CreateNoteFails(s, props, written) ==
  /\ Callable(s)
  /\ noteCount < MaxNotes
  /\ LET l == Last("createNote", s, FALSE)
     IN  IF written
         THEN /\ Aborts(s, StoreCreateNote(db[s], noteCount + 1, props), l)
              /\ noteCount' = noteCount + 1
         ELSE /\ Aborts(s, db[s], l)
              /\ UNCHANGED noteCount
  /\ UNCHANGED <<sessions, enableAutoSync, rename, calls>>
  /\ UNCHANGED saved

\* updateNote: db.updateNote fails, or a later read fails when the note is
\* rewritten
UpdateNoteFails(s, noteId, props, written) ==
  /\ StoreGetNote(db[s], noteId)
  /\ StoreCallFails(s, "updateNote",
                    IF written THEN StoreUpdateNote(db[s], noteId, props)
                    ELSE db[s])

\* moveNoteToOtherStorage: the failing call is db.createNote of the target
\* (stage 1), db.purgeNote of the source (stage 2) or a later read (stage 3)
MoveNoteFails(o, noteId, t, targetFolderPathname, stage) ==
  /\ Callable(o)
  /\ t \in DOMAIN storageMap
  /\ StoreGetNote(db[o], noteId)
  /\ noteCount < MaxNotes
  /\ LET created ==
           [db EXCEPT
              ![t] = StoreCreateNote(@, noteCount + 1,
                       [folderPathname |-> targetFolderPathname,
                        tags |-> db[o].notes[noteId].tags])]
         stores == [created EXCEPT ![o] = StorePurgeNote(@, noteId)]
     IN  db' = CASE stage = 1 -> db
                 [] stage = 2 -> created
                 [] OTHER -> stores
  /\ noteCount' = IF stage = 1 THEN noteCount ELSE noteCount + 1
  /\ last' = Last("moveNote", o, FALSE)
  /\ steps' = steps + 1
  /\ UNCHANGED <<storageMap, timers, sessions, enableAutoSync, rename, calls>>
  /\ UNCHANGED saved

NextFail ==
  \/ \E s \in CalledOn, props \in CreateProps : CreateNote(s, props)
  \/ \E s \in CalledOn, op \in WritingOps : StoreCallFails(s, op, db[s])
  \/ \E s \in CalledOn, props \in CreateProps, written \in BOOLEAN :
       CreateNoteFails(s, props, written)
  \/ \E s \in CalledOn, n \in Generated, props \in UpdateProps, written \in BOOLEAN :
       UpdateNoteFails(s, n, props, written)
  \/ \E o \in StorageIds, t \in StorageIds, n \in Generated, p \in Paths :
       \E stage \in 1..3 :
         (o \in CalledOn \/ t \in CalledOn) /\ MoveNoteFails(o, n, t, p, stage)

SpecFail == Init /\ [][NextFail]_vars

(***************************************************************************)
(* Specification of activation: notes are created, updated and trashed, and *)
(* initialize runs again over the stores as they are.                       *)
(***************************************************************************)
\* initialize: every storage is prepared from its store and the registry is
\* replaced; the call rejects, and replaces nothing, when a preparation throws
Initialize ==
  /\ Idle
  /\ steps < MaxSteps
  /\ IF \E s \in DOMAIN storageMap : prepareStorageThrows(db[s])
     THEN /\ last' = Last("initialize", "all", FALSE)
          /\ UNCHANGED storageMap
     ELSE /\ last' = Last("initialize", "all", TRUE)
          /\ storageMap' =
               [s \in DOMAIN storageMap |->
                  prepareStorage(storageMap[s].name, storageMap[s].cloudStorage,
                                 db[s])]
  /\ steps' = steps + 1
  /\ UNCHANGED <<db, timers, sessions, enableAutoSync, noteCount, rename, calls>>
  /\ saved' = IF last'.ok THEN saveStorageDataList(storageMap') ELSE saved

NextActivate ==
  \/ \E s \in CalledOn, props \in CreateProps : CreateNote(s, props)
  \/ \E s \in CalledOn, n \in Generated, props \in UpdateProps : UpdateNote(s, n, props)
  \/ \E s \in CalledOn, n \in Generated : TrashNote(s, n)
  \/ Initialize

SpecActivate == Init /\ [][NextActivate]_vars

(***************************************************************************)
(* Specification of completed sessions: notes of a linked storage are       *)
(* created, updated and trashed while its replication sessions start and    *)
(* complete.                                                                *)
(***************************************************************************)
InitComplete ==
  /\ db \in [StorageIds -> InitStores]
  /\ db["T"] = EmptyStore
  /\ storageMap =
       [s \in StorageIds |->
          prepareStorage(s, IF s \in CalledOn THEN Linked ELSE NoCloud, db[s])]
  /\ timers = [s \in StorageIds |-> {}]
  /\ sessions = [s \in StorageIds |-> {}]
  /\ enableAutoSync = TRUE
  /\ noteCount = 0
  /\ rename = NoRename
  /\ last = NoOp
  /\ steps = 0
  /\ calls = NoCalls
  /\ saved = saveStorageDataList(storageMap)

NextComplete ==
  \/ \E s \in CalledOn, props \in CreateProps : CreateNote(s, props)
  \/ \E s \in CalledOn, n \in Generated, props \in UpdateProps : UpdateNote(s, n, props)
  \/ \E s \in CalledOn, n \in Generated : TrashNote(s, n)
  \/ \E s \in CalledOn : SyncStorage(s)
  \/ \E s \in StorageIds : \E x \in sessions[s] : SessionComplete(s, x)

SpecComplete == InitComplete /\ [][NextComplete]_vars

(***************************************************************************)
(* The 'complete' handler in two steps: it awaits prepareStorage, which     *)
(* queries the store, and commits the prepared storage afterwards; local    *)
(* operations can run in between.                                           *)
(***************************************************************************)
\* the handler has queried the store: the session holds the prepared storage
SessionCompleteQuery(s, x) ==
  /\ x \in sessions[s]
  /\ "syncedStorage" \notin DOMAIN x
  /\ sessions' =
       [sessions EXCEPT
          ![s] = IF prepareStorageThrows(db[s])
                 THEN @ \ {x}
                 ELSE (@ \ {x}) \cup
                        {x @@ [syncedStorage |->
                                 prepareStorage(x.name,
                                                [x.cloudStorage EXCEPT !.synced = TRUE],
                                                db[s])]}]
  /\ UNCHANGED <<storageMap, db, timers, enableAutoSync, noteCount, rename, last,
                 steps, calls>>
  /\ UNCHANGED saved

\* the handler replaces the registered storage by the prepared one and saves
\* the descriptors
SessionCompleteCommit(s, x) ==
  /\ x \in sessions[s]
  /\ "syncedStorage" \in DOMAIN x
  /\ sessions' = [sessions EXCEPT ![s] = @ \ {x}]
  /\ storageMap' = IF s \notin DOMAIN storageMap THEN storageMap
                   ELSE [storageMap EXCEPT ![s] = x.syncedStorage]
  /\ saved' = saveStorageDataList(storageMap')
  /\ UNCHANGED <<db, timers, enableAutoSync, noteCount, rename, last, steps, calls>>

NextRequery ==
  \/ \E s \in CalledOn, props \in CreateProps : CreateNote(s, props)
  \/ \E s \in CalledOn : SyncStorage(s)
  \/ \E s \in StorageIds : \E x \in sessions[s] : SessionCompleteQuery(s, x)
  \/ \E s \in StorageIds : \E x \in sessions[s] : SessionCompleteCommit(s, x)

SpecRequery == InitComplete /\ [][NextRequery]_vars

(***************************************************************************)
(* Specification of the registry of storages: storages are created,         *)
(* removed, renamed, linked and unlinked, and the descriptors are saved.     *)
(***************************************************************************)
StorageNames == {"S", "T", "notes"}
CloudNames == {"cloud", "backup"}
\* the cloud storage linkStorage is given
LinkedNamed == [linked |-> TRUE, synced |-> FALSE, name |-> "cloud"]

\* createStorage: generateId gives an id that no registered storage has
CreateStorage(id, name) ==
  /\ id \notin DOMAIN storageMap
  /\ storageMap' = Put(storageMap, id, prepareStorage(name, NoCloud, EmptyStore))
  /\ db' = [db EXCEPT ![id] = EmptyStore]
  /\ saved' = saveStorageDataList(storageMap')
  /\ last' = Last("createStorage", id, TRUE)
  /\ UNCHANGED <<timers, sessions, enableAutoSync, noteCount, rename, steps, calls>>

\* removeStorage: the store is destroyed and the storage deleted
RemoveStorage(id) ==
  /\ IF id \notin DOMAIN storageMap
     THEN UNCHANGED <<storageMap, db, saved>>
     ELSE /\ db' = [db EXCEPT ![id] = EmptyStore]
          /\ storageMap' = Del(storageMap, id)
          /\ saved' = saveStorageDataList(storageMap')
  /\ last' = Last("removeStorage", id, id \in DOMAIN storageMap)
  /\ UNCHANGED <<timers, sessions, enableAutoSync, noteCount, rename, steps, calls>>

RenameStorage(id, name) ==
  /\ IF id \notin DOMAIN storageMap
     THEN UNCHANGED <<storageMap, saved>>
     ELSE /\ storageMap' = [storageMap EXCEPT ![id].name = name]
          /\ saved' = saveStorageDataList(storageMap')
  /\ last' = Last("renameStorage", id, id \in DOMAIN storageMap)
  /\ UNCHANGED <<db, timers, sessions, enableAutoSync, noteCount, rename, steps,
                 calls>>

\* renameCloudStorage returns at once for a storage that is not linked
RenameCloudStorage(id, cloudStorageName) ==
  /\ IF id \notin DOMAIN storageMap
     THEN /\ UNCHANGED <<storageMap, saved>>
          /\ last' = Last("renameCloudStorage", id, FALSE)
     ELSE IF storageMap[id].cloudStorage = NoCloud
     THEN /\ UNCHANGED <<storageMap, saved>>
          /\ last' = Last("renameCloudStorage", id, FALSE)
     ELSE /\ storageMap' =
               [storageMap EXCEPT
                  ![id].cloudStorage = Merge(@, [name |-> cloudStorageName])]
          /\ saved' = saveStorageDataList(storageMap')
          /\ last' = Last("renameCloudStorage", id, TRUE)
  /\ UNCHANGED <<db, timers, sessions, enableAutoSync, noteCount, rename, steps,
                 calls>>

NextStorages ==
  \/ \E id \in StorageIds, name \in StorageNames : CreateStorage(id, name)
  \/ \E id \in StorageIds : RemoveStorage(id)
  \/ \E id \in StorageIds, name \in StorageNames : RenameStorage(id, name)
  \/ \E id \in StorageIds, name \in CloudNames : RenameCloudStorage(id, name)
  \/ \E id \in StorageIds : LinkStorage(id, LinkedNamed)
  \/ \E id \in StorageIds : UnlinkStorage(id)

SpecStorages == Init /\ [][NextStorages]_vars

(***************************************************************************)
(* Specification of the life of a storage: its descriptor is changed and    *)
(* the storage is removed while timeouts are pending and sessions are in    *)
(* flight.  No storage is created: generateId gives createStorage an id     *)
(* that was never registered.                                               *)
(***************************************************************************)
\* the 'error' event of a session whose storage is not registered any more:
\* unlinkStorage finds no storage and the updater that resets the handle
\* dereferences an undefined draft entry, so the handler throws and the
\* registry and the saved descriptors stay as they are
SessionErrorUnregistered(s, x, status) ==
  /\ x \in sessions[s]
  /\ s \notin DOMAIN storageMap
  /\ sessions' = [sessions EXCEPT ![s] = @ \ {x}]
  /\ storageMap' = unlinkStorage(storageMap, s)
  /\ UNCHANGED <<db, timers, enableAutoSync, noteCount, rename, last, steps, calls>>
  /\ UNCHANGED saved

InitLifecycle ==
  /\ db = [s \in StorageIds |-> RootStore]
  /\ \E cloud \in [StorageIds -> {NoCloud, LinkedNamed}] :
       /\ cloud["T"] = NoCloud
       /\ storageMap = [s \in StorageIds |-> prepareStorage(s, cloud[s], db[s])]
  /\ timers = [s \in StorageIds |-> {}]
  /\ sessions = [s \in StorageIds |-> {}]
  /\ enableAutoSync = TRUE
  /\ noteCount = 0
  /\ rename = NoRename
  /\ last = NoOp
  /\ steps = 0
  /\ calls = NoCalls
  /\ saved = saveStorageDataList(storageMap)

NextLifecycle ==
  \/ \E s \in CalledOn : QueueSyncingStorage(s, autoSyncDebounceWaitingTime)
  \/ \E s \in CalledOn : SyncStorage(s)
  \/ \E s \in StorageIds : \E t \in timers[s] : TimerFire(s, t)
  \/ \E s \in StorageIds : \E x \in sessions[s] : SessionComplete(s, x)
  \/ \E s \in StorageIds : \E x \in sessions[s], status \in Statuses :
       SessionError(s, x, status)
  \/ \E s \in StorageIds : \E x \in sessions[s], status \in Statuses :
       SessionErrorUnregistered(s, x, status)
  \/ \E s \in CalledOn : LinkStorage(s, LinkedNamed)
  \/ \E s \in CalledOn : UnlinkStorage(s)
  \/ \E s \in CalledOn, name \in StorageNames : RenameStorage(s, name)
  \/ \E s \in CalledOn, name \in CloudNames : RenameCloudStorage(s, name)
  \/ \E s \in CalledOn : RemoveStorage(s)

SpecLifecycle == InitLifecycle /\ [][NextLifecycle]_vars

(***************************************************************************)
(* Specification of background synchronization under fair scheduling: the   *)
(* operations that mutate storage S, the preference and the link of S, the  *)
(* expiry of timeouts and the events of sessions.  While a storage has a    *)
(* pending timeout the event loop eventually runs the callback of one, and  *)
(* a replication session ends with 'complete' or with 'error'.              *)
(***************************************************************************)
InitLive ==
  /\ db = [s \in StorageIds |-> IF s = "S" THEN FoldersStore ELSE EmptyStore]
  /\ \E cloud \in {NoCloud, Linked} :
       storageMap = [s \in StorageIds |->
                       prepareStorage(s, IF s = "S" THEN cloud ELSE NoCloud, db[s])]
  /\ timers = [s \in StorageIds |-> {}]
  /\ sessions = [s \in StorageIds |-> {}]
  /\ enableAutoSync = TRUE
  /\ noteCount = 0
  /\ rename = NoRename
  /\ last = NoOp
  /\ steps = 0
  /\ calls = NoCalls
  /\ saved = saveStorageDataList(storageMap)

\* a session of s ends
SessionEnd(s) ==
  \E x \in sessions[s] :
    \/ SessionComplete(s, x)
    \/ \E status \in Statuses : SessionError(s, x, status)

\* a pending timeout of s expires
TimerExpiry(s) == \E t \in timers[s] : TimerFire(s, t)

\* the props createNote is called with
LiveProps ==
  {[folderPathname |-> PA, tags |-> {}], [folderPathname |-> PAC, tags |-> {"t"}]}

NextLive ==
  \/ \E s \in CalledOn, props \in LiveProps : CreateNote(s, props)
  \/ \E s \in CalledOn, p \in Paths : UpdateFolder(s, p)
  \/ \E s \in CalledOn : AddAttachments(s)
  \/ \E s \in CalledOn : LinkStorage(s, Linked)
  \/ \E s \in CalledOn : UnlinkStorage(s)
  \/ ToggleAutoSync
  \/ \E s \in StorageIds : \E t \in timers[s] : TimerFire(s, t)
  \/ \E s \in StorageIds : \E x \in sessions[s] : SessionComplete(s, x)
  \/ \E s \in StorageIds : \E x \in sessions[s], status \in Statuses :
       SessionError(s, x, status)

SpecLive ==
  /\ InitLive
  /\ [][NextLive]_vars
  /\ \A s \in StorageIds : WF_vars(TimerExpiry(s)) /\ WF_vars(SessionEnd(s))

(***************************************************************************)
(* Properties of the index.                                                 *)
(***************************************************************************)
\* the note ids a folder entry or a tag entry of a snapshot holds
FolderIds(storage, p) ==
  IF IsNull(storage.folderMap, p) THEN {} ELSE storage.folderMap[p].noteIdSet
TagIds(storage, t) ==
  IF IsNull(storage.tagMap, t) THEN {} ELSE storage.tagMap[t].noteIdSet

\* C1: once the operations called so far have run to completion, every indexed
\* note that is not trashed has its id in the noteIds of the folder entry at its
\* folder path and in the noteIds of the tag entry of each of its tags.
C1_NonTrashedIndexed ==
  Idle =>
    \A s \in DOMAIN storageMap :
      \A n \in DOMAIN storageMap[s].noteMap :
        LET note == storageMap[s].noteMap[n]
        IN  ~note.trashed =>
              /\ n \in FolderIds(storageMap[s], note.folderPathname)
              /\ \A t \in note.tags : n \in TagIds(storageMap[s], t)

\* C2: no folder noteIds set and no tag noteIds set holds the id of an indexed
\* note whose trashed flag is true.
C2_TrashedExcluded ==
  Idle =>
    \A s \in DOMAIN storageMap :
      \A n \in DOMAIN storageMap[s].noteMap :
        storageMap[s].noteMap[n].trashed =>
          /\ \A p \in DOMAIN storageMap[s].folderMap : n \notin FolderIds(storageMap[s], p)
          /\ \A t \in DOMAIN storageMap[s].tagMap : n \notin TagIds(storageMap[s], t)

\* C3: every id in the noteIds of folder entry p is the id of an indexed note
\* filed under p, and every id in the noteIds of tag entry t is the id of an
\* indexed note carrying t.
C3_IndexExact ==
  Idle =>
    \A s \in DOMAIN storageMap :
      LET storage == storageMap[s]
      IN  /\ \A p \in DOMAIN storage.folderMap :
               \A n \in FolderIds(storage, p) :
                 /\ n \in DOMAIN storage.noteMap
                 /\ storage.noteMap[n].folderPathname = p
          /\ \A t \in DOMAIN storage.tagMap :
               \A n \in TagIds(storage, t) :
                 /\ n \in DOMAIN storage.noteMap
                 /\ t \in storage.noteMap[n].tags

(***************************************************************************)
(* Properties of renameFolder and removeFolder.                             *)
(***************************************************************************)
\* the call in progress was given a destination that the store already held,
\* for the renamed folder or for one of the folders below it
DestinationExists ==
  /\ rename.active
  /\ \E f \in DOMAIN rename.cb : StoreGetFolder(rename.db0, NewFolderPathname(f))

\* the store and the registry are as they were when renameFolder was called
RenameWroteNothing ==
  /\ db[rename.sid] = rename.db0
  /\ storageMap = rename.map0

\* C8: while and after renameFolder runs with a destination pathname (of the
\* folder or of any folder below it) that already exists, no durable write has
\* been issued for any folder of the subtree: the document store and the index
\* are as they were at the call, and the call fails.
C8_RenameExistingDestination ==
  DestinationExists =>
    /\ RenameWroteNothing
    /\ (\A f \in DOMAIN rename.cb : rename.cb[f] \in {"done", "failed"})
          => rename.rejected

\* the call in progress was given a new pathname with another number of
\* segments, counted as the code counts them: split('/').length
DepthMismatch ==
  /\ rename.active
  /\ SplitLength(rename.pathname) # SplitLength(rename.newPathname)

InSubtree(p, pathname) ==
  \/ p = pathname
  \/ /\ Len(p) > Len(pathname)
     /\ \A i \in 1..Len(pathname) : p[i] = pathname[i]
     /\ p[Len(pathname) + 1] = "/"

\* the effect removeFolder(pathname) has on the index of storage s
RemoveFolderCascade(s, pathname) ==
  LET before == storageMap[s]
      after == storageMap'[s]
      filed == {n \in DOMAIN before.noteMap :
                  InSubtree(before.noteMap[n].folderPathname, pathname)}
  IN  /\ DOMAIN after.folderMap =
           {p \in DOMAIN before.folderMap : ~InSubtree(p, pathname)}
      /\ \A p \in DOMAIN after.folderMap : after.folderMap[p] = before.folderMap[p]
      /\ DOMAIN after.noteMap = DOMAIN before.noteMap
      /\ \A n \in DOMAIN before.noteMap :
           after.noteMap[n] =
             IF n \in filed THEN [before.noteMap[n] EXCEPT !.trashed = TRUE]
             ELSE before.noteMap[n]
      /\ DOMAIN after.tagMap = DOMAIN before.tagMap
      /\ \A t \in DOMAIN before.tagMap :
           TagIds(after, t) =
             TagIds(before, t) \ {n \in filed : t \in before.noteMap[n].tags}
      /\ \A o \in (DOMAIN storageMap) \ {s} : storageMap'[o] = storageMap[o]

\* C10: removeFolder(p) removes from the index the folder entries of p and of
\* every pathname starting with p + "/", trashes every indexed note filed under
\* one of them and removes its id from the noteIds of each tag it carries, and
\* changes no other folder entry, tag entry or note.
C10_RemoveFolderCascade ==
  [][\A s \in CalledOn, p \in Paths :
       RemoveFolder(s, p) => RemoveFolderCascade(s, p)]_vars

(***************************************************************************)
(* Properties of the scheduler.                                             *)
(***************************************************************************)
\* C5: in every reachable state each storage has at most one pending sync
\* timer, under any interleaving of queueSync, cancelSync, timer fires, local
\* mutations and session complete / error events.
C5_OnePendingTimer ==
  \A s \in StorageIds : Cardinality(timers[s]) <= 1

\* C6: each storage has at most one replication session in flight; while the
\* session handle of a storage is set no step starts a session for it, and a
\* syncStorage call on it leaves the registry, the sessions and the timers
\* unchanged.
C6_OneSession ==
  [][\A s \in StorageIds :
       /\ Cardinality(sessions'[s]) <= 1
       /\ (s \in DOMAIN storageMap /\ storageMap[s].sync # 0) =>
            /\ sessions'[s] \subseteq sessions[s]
            /\ SyncStorage(s) =>
                 UNCHANGED <<storageMap, db, timers, sessions>>]_vars

\* reached: syncStorage was called on a linked storage whose session is in
\* flight, and was refused
C6_Witness ==
  /\ last = Last("syncStorage", "S", FALSE)
  /\ storageMap["S"].cloudStorage # NoCloud
  /\ storageMap["S"].sync # 0
  /\ Cardinality(sessions["S"]) = 1

\* C7: once cancelSync(S) has been called, and until a later call arms a timer
\* of S again, no timeout of S expires into a replication call.
C7_CancelPreventsFire ==
  [][\A s \in StorageIds :
       last = Last("cancelSyncingStorageQueue", s, TRUE) =>
         ~(\E t \in timers[s] : TimerFire(s, t) /\ sessions'[s] # sessions[s])]_vars

(***************************************************************************)
(* Properties of overlapping calls.                                         *)
(***************************************************************************)
\* the folder, tag and note index of a snapshot
IndexOf(storage) ==
  [noteMap |-> storage.noteMap,
   folderMap |-> storage.folderMap,
   tagMap |-> storage.tagMap]

\* the store and the snapshot after call c has run alone, from call to commit
RunAlone(st, c) ==
  LET d == CASE c.op = "createNote" -> StoreCreateNote(st.db, c.noteId, c.props)
             [] c.op = "updateNote" -> StoreUpdateNote(st.db, c.noteId, c.props)
             [] c.op = "createFolder" -> StoreCreateFolder(st.db, c.pathname)
      alone == [c EXCEPT !.storage = st.storage, !.d = d]
      ran == IF c.op = "updateNote"
             THEN [alone EXCEPT !.previousNoteDoc = st.db.notes[c.noteId]]
             ELSE alone
  IN  IF c.op = "updateNote" /\ ~StoreGetNote(st.db, c.noteId)
      THEN st
      ELSE IF c.op = "updateNote" /\ updateNoteThrows(st.storage, d, c.noteId)
      THEN [db |-> d, storage |-> st.storage]
      ELSE [db |-> d, storage |-> CommitOf(st.storage, ran)]

\* the snapshot the storage had when the first call was made
BaseOf(c) == [db |-> InitOverlapStore(c.sid), storage |-> c.storage]

\* C4: when two calls on the same storage have overlapped (the second read
\* the snapshot before the first committed) and both have committed, the
\* index equals the one obtained by running the two calls one after the other
\* in one of the two orders.
C4_OverlapSerialized ==
  (/\ Len(calls.ops) = 2
   /\ calls.open = {}
   /\ calls.ops[2].overlaps
   /\ ~calls.ops[1].threw
   /\ ~calls.ops[2].threw)
  => LET a == calls.ops[1]
         b == calls.ops[2]
         base == BaseOf(a)
     IN  IndexOf(storageMap[a.sid]) \in
           {IndexOf(RunAlone(RunAlone(base, a), b).storage),
            IndexOf(RunAlone(RunAlone(base, b), a).storage)}

(***************************************************************************)
(* Properties of single operations.                                         *)
(***************************************************************************)
\* what moveNoteToOtherStorage(o, n, t, f) leaves in the two indexes when the
\* store of o holds note n: n' is the id generated for the new note
MoveNoteEffect(o, n, t, f) ==
  LET stored == db[o].notes[n]
      was == IF n \in DOMAIN storageMap[o].noteMap
             THEN storageMap[o].noteMap[n] ELSE stored
      source == storageMap'[o]
      target == storageMap'[t]
      new == noteCount'
  IN  /\ n \notin DOMAIN source.noteMap
      /\ n \notin FolderIds(source, was.folderPathname)
      /\ \A tag \in was.tags : n \notin TagIds(source, tag)
      /\ new \in DOMAIN target.noteMap
      /\ target.noteMap[new].folderPathname = f
      /\ target.noteMap[new].tags = was.tags
      /\ new \in FolderIds(target, f)
      /\ \A tag \in was.tags : new \in TagIds(target, tag)

\* C11: for distinct storages o and t, moveNoteToOtherStorage(o, n, t, f) of a
\* stored note n ends with n absent from the note index of o and from the
\* noteIds of its former folder and of each of its tags in o, and with a new
\* note carrying the same tags indexed in t under folder f, its id in the
\* noteIds of folder f and of each of its tags in t.
C11_MoveBetweenStorages ==
  [][\A o \in StorageIds, t \in StorageIds, n \in Generated, f \in Paths :
       (o # t /\ StoreGetNote(db[o], n) /\ MoveNoteToOtherStorage(o, n, t, f))
         => MoveNoteEffect(o, n, t, f)]_vars

\* C12: moveNoteToOtherStorage called with a source storage id or a destination
\* storage id that is not registered, or with a note id that the source store
\* does not hold, raises an error and leaves the document stores, the
\* snapshots and the timers as they were.
C12_MoveRefused ==
  [][\A o \in AnyIds, t \in AnyIds, n \in Generated, f \in Paths :
       (\/ MoveNoteNullStorage(o, t)
        \/ /\ o \in DOMAIN storageMap
           /\ ~StoreGetNote(db[o], n)
           /\ MoveNoteToOtherStorage(o, n, t, f))
         => /\ last' = Last("moveNote", o, FALSE)
            /\ UNCHANGED <<db, storageMap, timers>>]_vars

\* reached: a move from a registered storage holding an armed timer and a note
\* to an unregistered one has been refused
C12_Witness ==
  /\ last = Last("moveNote", "S", FALSE)
  /\ steps = MaxSteps
  /\ DOMAIN storageMap["S"].noteMap # {}
  /\ timers["S"] # {}

\* the index part of a snapshot
IndexPart(storage) ==
  [noteMap |-> storage.noteMap, folderMap |-> storage.folderMap,
   tagMap |-> storage.tagMap]

\* the snapshot the same createFolder call yields when it runs once more
CreateFolderAgain(s, pathname) ==
  createFolderCommit(storageMap'[s], storageMap'[s],
                     StoreCreateFolder(db'[s], pathname), pathname)

\* C13: createFolder(p) leaves every folder entry the index already has,
\* noteIds included, as it was, ends with an entry for p, and a second
\* createFolder(p) yields the same index as the first.
C13_CreateFolderIdempotent ==
  [][\A s \in StorageIds, p \in Paths :
       CreateFolder(s, p) =>
         /\ \A q \in DOMAIN storageMap[s].folderMap :
              ~IsNull(storageMap[s].folderMap, q) =>
                /\ q \in DOMAIN storageMap'[s].folderMap
                /\ storageMap'[s].folderMap[q] = storageMap[s].folderMap[q]
         /\ ~IsNull(storageMap'[s].folderMap, p)
         /\ IndexPart(CreateFolderAgain(s, p)) = IndexPart(storageMap'[s])]_vars

\* reached: createFolder has run on a path that was indexed with its
\* ancestors, one of the entries holding a note
C13_Witness ==
  /\ last = Last("createFolder", "S", TRUE)
  /\ steps = 1
  /\ FolderIds(storageMap["S"], PAC) # {}
  /\ \A p \in Paths : ~IsNull(storageMap["S"].folderMap, p)

\* the snapshot purgeNote(noteId) commits when it is the next operation
PurgedNext(s, noteId) ==
  purgeNoteCommit(storageMap'[s], storageMap'[s], noteId)

\* C14: after createNote, purgeNote of the returned id, called next, completes
\* and leaves the noteIds of every folder entry and of every tag entry as they
\* were before createNote (an entry that did not exist holds no id).
C14_CreateThenPurge ==
  [][\A s \in StorageIds, props \in CreateProps :
       CreateNote(s, props) =>
         /\ StoreGetNote(db'[s], noteCount')
         /\ ~purgeNoteThrows(storageMap'[s], noteCount')
         /\ \A p \in DOMAIN storageMap[s].folderMap
                     \cup DOMAIN PurgedNext(s, noteCount').folderMap :
              FolderIds(PurgedNext(s, noteCount'), p) = FolderIds(storageMap[s], p)
         /\ \A t \in DOMAIN storageMap[s].tagMap
                     \cup DOMAIN PurgedNext(s, noteCount').tagMap :
              TagIds(PurgedNext(s, noteCount'), t) = TagIds(storageMap[s], t)]_vars

\* reached: note 1 was created and then purged in a storage whose folder and
\* tag entries hold another note
C14_Witness ==
  /\ last = Last("purgeNote", "S", TRUE)
  /\ steps = 2
  /\ noteCount = 1
  /\ 1 \notin DOMAIN storageMap["S"].noteMap
  /\ 0 \in FolderIds(storageMap["S"], PAC)
  /\ 0 \in TagIds(storageMap["S"], "t")

\* the stored notes of d that are not trashed and satisfy `in`
StoredUntrashed(d, in(_)) ==
  {n \in DOMAIN d.notes : ~d.notes[n].trashed /\ in(d.notes[n])}

\* C15: after activation every folder record of the store has an entry whose
\* noteIds are exactly the ids of the stored, non-trashed notes filed under
\* that path, and every tag record has an entry whose noteIds are exactly the
\* ids of the stored, non-trashed notes carrying that tag.
C15_ActivationExact ==
  [][(Initialize /\ last'.ok) =>
       \A s \in StorageIds :
         /\ \A p \in db[s].folders :
              LET filed(noteDoc) == noteDoc.folderPathname = p
              IN  /\ ~IsNull(storageMap'[s].folderMap, p)
                  /\ storageMap'[s].folderMap[p].noteIdSet
                       = StoredUntrashed(db[s], filed)
         /\ \A t \in db[s].tags :
              LET tagged(noteDoc) == t \in noteDoc.tags
              IN  /\ ~IsNull(storageMap'[s].tagMap, t)
                  /\ storageMap'[s].tagMap[t].noteIdSet
                       = StoredUntrashed(db[s], tagged)]_vars

\* reached: activation has run over a store holding a trashed note and a
\* tagged note that is not trashed
C15_Witness ==
  /\ last = Last("initialize", "all", TRUE)
  /\ \E n \in DOMAIN db["S"].notes : db["S"].notes[n].trashed
  /\ \E n \in DOMAIN db["S"].notes :
       ~db["S"].notes[n].trashed /\ db["S"].notes[n].tags # {}

\* a call of the document store made by the operation of this step fails
StoreFailure ==
  \/ \E s \in StorageIds, op \in WritingOps : StoreCallFails(s, op, db[s])
  \/ \E s \in StorageIds, props \in CreateProps, written \in BOOLEAN :
       CreateNoteFails(s, props, written)
  \/ \E s \in StorageIds, n \in Generated, props \in UpdateProps, written \in BOOLEAN :
       UpdateNoteFails(s, n, props, written)
  \/ \E o \in StorageIds, t \in StorageIds, n \in Generated, p \in Paths :
       \E stage \in 1..3 : MoveNoteFails(o, n, t, p, stage)

\* C16: an operation one of whose document-store calls fails leaves the
\* snapshot of every storage as it was and arms no timer.
C16_FailedCallCommitsNothing ==
  [][StoreFailure => (~last'.ok /\ UNCHANGED <<storageMap, timers>>)]_vars

\* reached: createNote has failed after the store wrote the note; the note is
\* stored and not indexed, and no timer is armed
C16_Witness ==
  /\ last = Last("createNote", "S", FALSE)
  /\ noteCount = 1
  /\ StoreGetNote(db["S"], 1)
  /\ 1 \notin DOMAIN storageMap["S"].noteMap
  /\ timers["S"] = {}

\* the operation of this step is called with a storage id that is not
\* registered, or is trashNote or updateNote called with a note id that the
\* store of its storage does not hold
CalledOnMissing ==
  \/ \E op \in NullStorageOps, s \in AnyIds : NullStorageReturn(op, s)
  \/ \E o \in AnyIds, t \in AnyIds : MoveNoteNullStorage(o, t)
  \/ \E s \in StorageIds, n \in Generated :
       /\ ~StoreGetNote(db[s], n)
       /\ \/ TrashNote(s, n)
          \/ \E props \in UpdateProps : UpdateNote(s, n, props)

\* C17: an operation called with an unregistered storage id, and trashNote or
\* updateNote called with a note id missing from the store, changes neither a
\* snapshot nor a store and arms no timer.
C17_MissingTargetAborts ==
  [][CalledOnMissing => (~last'.ok /\ UNCHANGED <<storageMap, db, timers>>)]_vars

\* reached: purgeNote was called on the unregistered storage id while a timer
\* of a registered storage was pending
C17_Witness ==
  /\ last = Last("purgeNote", "U", FALSE)
  /\ timers["S"] # {}
  /\ "U" \notin DOMAIN storageMap

\* C18: purgeNote(id) of an indexed note, trashed or not, its folder entry
\* indexed or not, ends with the note out of the note index and its id in the
\* noteIds of no folder entry and of no tag entry.
C18_PurgeRemoves ==
  [][\A s \in StorageIds, n \in Generated :
       (n \in DOMAIN storageMap[s].noteMap /\ PurgeNote(s, n))
         => /\ n \notin DOMAIN storageMap'[s].noteMap
            /\ \A p \in DOMAIN storageMap'[s].folderMap :
                 n \notin FolderIds(storageMap'[s], p)
            /\ \A t \in DOMAIN storageMap'[s].tagMap :
                 n \notin TagIds(storageMap'[s], t)]_vars

\* C19: an updateNote call whose store holds the note while the snapshot the
\* call read has no entry for it does not throw, and once it has committed the
\* note is indexed under its new folder and tags.
C19_UpdateUnindexed ==
  \A i \in 1..Len(calls.ops) :
    LET c == calls.ops[i]
    IN  (c.op = "updateNote" /\ c.noteId \notin DOMAIN c.storage.noteMap)
          => /\ ~c.threw
             /\ (i \notin calls.open /\ i = Len(calls.ops))
                  => LET noteDoc == c.d.notes[c.noteId]
                     IN  /\ c.noteId \in DOMAIN storageMap[c.sid].noteMap
                         /\ c.noteId \in FolderIds(storageMap[c.sid],
                                                   noteDoc.folderPathname)
                         /\ \A t \in noteDoc.tags :
                              c.noteId \in TagIds(storageMap[c.sid], t)

\* a replication session of s reports an error with status 404 or 409
SessionGone(s) ==
  \E x \in sessions[s], status \in {404, 409} : SessionError(s, x, status)

\* C20: after an error 404 or 409 of a session of S the storage has no cloud
\* storage and no session handle, no session of S is in flight, and the
\* descriptor saved by the handler has no cloud storage; from then on no
\* session of S is started and S stays unlinked until linkStorage(S).
C20_GoneUnlinks ==
  [][\A s \in StorageIds :
       /\ SessionGone(s) =>
            /\ storageMap'[s].cloudStorage = NoCloud
            /\ storageMap'[s].sync = 0
            /\ sessions'[s] = {}
            /\ saved'[s].cloudStorage = NoCloud
       /\ (storageMap[s].cloudStorage = NoCloud /\ sessions[s] = {}) =>
            /\ sessions'[s] = {}
            /\ storageMap'[s].cloudStorage # NoCloud => LinkStorage(s, Linked)]_vars

\* reached: the session that syncStorage started for S has reported 404 or 409
C20_Witness ==
  /\ last = Last("syncStorage", "S", TRUE)
  /\ storageMap["S"].cloudStorage = NoCloud
  /\ storageMap["S"].sync = 0
  /\ sessions["S"] = {}

(***************************************************************************)
(* Properties of the scheduler and of the replication sessions.             *)
(***************************************************************************)
\* a session of s reports an error whose status is neither 404 nor 409
SessionFailed(s) == \E x \in sessions[s] : SessionError(s, x, 500)

\* syncStorage(s), called in the state this step leaves, starts a session
NextSyncStarts(s) ==
  syncStorage(storageMap', sessions', s, TRUE).sessions # sessions'

\* what the error handler leaves of s: the cloud storage and the index as they
\* were, no handle and no session in flight
OtherErrorKeeps(s) ==
  /\ storageMap'[s].cloudStorage = storageMap[s].cloudStorage
  /\ IndexPart(storageMap'[s]) = IndexPart(storageMap[s])
  /\ storageMap'[s].sync = 0
  /\ sessions'[s] = {}

C22_ToggleOffCancels ==
  [][/\ (ToggleAutoSync /\ ~enableAutoSync') =>
          /\ \A s \in StorageIds : timers'[s] = {}
          /\ sessions' = sessions
     /\ ~enableAutoSync =>
          \A s \in StorageIds :
            ~(\E t \in timers[s] : TimerFire(s, t) /\ sessions'[s] # sessions[s])]_vars

\* C23: cancelSyncingStorageQueue(S) changes nothing but the timer handle and
\* the pending timeouts of S: the sessions in flight and the session handle,
\* the index and the cloud storage of S, the stores and every other storage
\* are as they were.
C23_CancelFrame ==
  [][\A s \in StorageIds :
       CancelSyncingStorageQueue(s) =>
         /\ sessions' = sessions
         /\ db' = db
         /\ timers'[s] \subseteq timers[s]
         /\ [storageMap'[s] EXCEPT !.syncTimer = storageMap[s].syncTimer]
              = storageMap[s]
         /\ \A o \in StorageIds \ {s} :
              storageMap'[o] = storageMap[o] /\ timers'[o] = timers[o]]_vars

\* reached: the timer of S was cancelled while a session of S was in flight
\* and a timer of T was pending
C23_Witness ==
  /\ last = Last("cancelSyncingStorageQueue", "S", TRUE)
  /\ storageMap["S"].syncTimer = 0
  /\ timers["S"] = {}
  /\ storageMap["S"].sync # 0
  /\ sessions["S"] # {}
  /\ timers["T"] # {}

\* C24: when a timeout of a registered storage S expires while auto-sync is
\* enabled, the callback leaves exactly one pending timeout of S, armed with
\* the interval autoSyncIntervalTime and held in syncTimer.
C24_FireRearms ==
  [][\A s \in StorageIds :
       (enableAutoSync /\ \E t \in timers[s] : TimerFire(s, t)) =>
         /\ Cardinality(timers'[s]) = 1
         /\ \A t \in timers'[s] :
              t.delay = autoSyncIntervalTime /\ t.h = storageMap'[s].syncTimer]_vars

\* C25: when a session of S completes, the folder and tag entries of S are
\* exactly the stored, non-trashed notes of each folder and tag record, the
\* cloud storage of S is the one of the session marked as synced, in the
\* registry and in the saved descriptor, and the session handle is cleared, so
\* that the next syncStorage call starts a session.
C25_CompleteRebuilds ==
  [][\A s \in StorageIds :
       (\E x \in sessions[s] : SessionComplete(s, x)) =>
         /\ storageMap'[s].noteMap = db[s].notes
         /\ \A p \in db[s].folders :
              LET filed(noteDoc) == noteDoc.folderPathname = p
              IN  FolderIds(storageMap'[s], p) = StoredUntrashed(db[s], filed)
         /\ \A t \in db[s].tags :
              LET tagged(noteDoc) == t \in noteDoc.tags
              IN  TagIds(storageMap'[s], t) = StoredUntrashed(db[s], tagged)
         /\ storageMap'[s].cloudStorage = [Linked EXCEPT !.synced = TRUE]
         /\ saved'[s].cloudStorage = [Linked EXCEPT !.synced = TRUE]
         /\ storageMap'[s].sync = 0
         /\ NextSyncStarts(s)]_vars

\* reached: a session of S has completed over a store holding a trashed note
\* and a tagged note that is not trashed
C25_Witness ==
  /\ storageMap["S"].cloudStorage = [Linked EXCEPT !.synced = TRUE]
  /\ storageMap["S"].sync = 0
  /\ sessions["S"] = {}
  /\ last = Last("syncStorage", "S", TRUE)
  /\ \E n \in DOMAIN db["S"].notes : db["S"].notes[n].trashed
  /\ \E n \in DOMAIN db["S"].notes :
       ~db["S"].notes[n].trashed /\ db["S"].notes[n].tags # {}

(***************************************************************************)
(* Properties of the registry of storages.                                  *)
(***************************************************************************)
\* C26: after createStorage, removeStorage, renameStorage, renameCloudStorage,
\* linkStorage and unlinkStorage the saved descriptors are those of the
\* registered storages: one per registered id, with the name and the cloud
\* storage the registry holds.
C26_SavedIsRegistry ==
  /\ DOMAIN saved = DOMAIN storageMap
  /\ \A id \in DOMAIN storageMap :
       /\ saved[id].name = storageMap[id].name
       /\ saved[id].cloudStorage = storageMap[id].cloudStorage

\* reached: a storage was created anew and linked, another was removed, and
\* the cloud storage of the first was renamed
C26_Witness ==
  /\ last = Last("renameCloudStorage", "T", TRUE)
  /\ DOMAIN storageMap = {"T"}
  /\ storageMap["T"].name = "notes"
  /\ storageMap["T"].cloudStorage.name = "backup"
  /\ saved["T"].cloudStorage.name = "backup"

(***************************************************************************)
(* Properties of calls on different storages.                               *)
(***************************************************************************)
\* a step of an operation called on storage s, other than
\* moveNoteToOtherStorage
OperationOn(s) ==
  \/ \E props \in CreateProps : CreateNoteCall(s, props)
  \/ \E n \in 0..noteCount, props \in UpdateProps : UpdateNoteCall(s, n, props)
  \/ \E p \in Paths : CreateFolderCall(s, p)
  \/ \E i \in calls.open : calls.ops[i].sid = s /\ CommitCall(i)
  \/ \E n \in 0..noteCount : TrashNote(s, n)
  \/ \E n \in 0..noteCount : PurgeNote(s, n)

\* the store and the snapshot of a storage before any call
BaseApart(c) == [db |-> NoteStore, storage |-> prepareStorage(c.sid, NoCloud, NoteStore)]

\* two calls on different storages have overlapped and both have committed
OverlappedApart ==
  /\ steps = 0
  /\ Len(calls.ops) = 2
  /\ calls.open = {}
  /\ calls.ops[2].overlaps
  /\ calls.ops[1].sid # calls.ops[2].sid
  /\ ~calls.ops[1].threw
  /\ ~calls.ops[2].threw

\* C27: an operation on storage s other than moveNoteToOtherStorage leaves the
\* snapshot, the pending timeouts and the sessions of every other storage
\* unchanged; and when a call on one storage and a call on another have
\* overlapped and both have committed, the index of each storage equals the
\* one its call gives when it runs alone.
C27_StoragesIndependent ==
  /\ [][\A s \in StorageIds :
          OperationOn(s) =>
            \A o \in StorageIds \ {s} :
              /\ storageMap'[o] = storageMap[o]
              /\ timers'[o] = timers[o]
              /\ sessions'[o] = sessions[o]
              /\ db'[o] = db[o]]_vars
  /\ [](OverlappedApart =>
          \A i \in 1..2 :
            LET c == calls.ops[i]
            IN  IndexOf(storageMap[c.sid]) = IndexOf(RunAlone(BaseApart(c), c).storage))

\* reached: createNote on S and updateNote of note 0 on T overlapped, both
\* committed, and each storage shows the outcome of its own call
C27_Witness ==
  /\ OverlappedApart
  /\ calls.ops[1].op = "createNote"
  /\ calls.ops[1].sid = "S"
  /\ calls.ops[2].op = "updateNote"
  /\ calls.ops[2].sid = "T"
  /\ 1 \in DOMAIN storageMap["S"].noteMap
  /\ 1 \notin DOMAIN storageMap["T"].noteMap
  /\ storageMap["T"].noteMap[0].folderPathname # PA
  /\ timers["S"] # {}
  /\ timers["T"] # {}

(***************************************************************************)
(* Properties of the synchronization queued by the operations.              *)
(***************************************************************************)
\* a step in which a mutating operation on storage s returns normally
MutationReturns(s) ==
  /\ last' # NoOp
  /\ last'.ok
  /\ \/ \E props \in CreateProps : CreateNote(s, props)
     \/ \E n \in Generated, props \in UpdateProps : UpdateNote(s, n, props)
     \/ \E n \in Generated : TrashNote(s, n)
     \/ \E n \in Generated : UntrashNote(s, n)
     \/ \E n \in Generated : PurgeNote(s, n)
     \/ \E p \in Paths : CreateFolder(s, p)
     \/ rename.active /\ rename.sid = s /\ RenameFolderReturn
     \/ \E p \in Paths : UpdateFolder(s, p)
     \/ \E p \in Paths : RemoveFolder(s, p)
     \/ \E t \in TagNames : RemoveTag(s, t)
     \/ AddAttachments(s)
     \/ RemoveAttachment(s)

\* a step in which moveNoteToOtherStorage from o to t returns normally
MoveReturns(o, t) ==
  /\ last' # NoOp
  /\ last'.ok
  /\ \E n \in Generated, p \in Paths : MoveNoteToOtherStorage(o, n, t, p)

\* after the step, the timeout held in the syncTimer of s is pending with the
\* debounce delay
ArmedNext(s) ==
  /\ storageMap'[s].syncTimer # 0
  /\ [h |-> storageMap'[s].syncTimer, delay |-> autoSyncDebounceWaitingTime]
       \in timers'[s]

\* C28: with automatic synchronization enabled, after each mutating operation
\* on storage s that returns normally, s holds a pending timeout armed with
\* the debounce delay; moveNoteToOtherStorage arms one for the source and one
\* for the destination.
C28_MutationArmsTimer ==
  [][enableAutoSync =>
       /\ \A s \in StorageIds : MutationReturns(s) => ArmedNext(s)
       /\ \A o \in StorageIds, t \in StorageIds :
            MoveReturns(o, t) => ArmedNext(o) /\ ArmedNext(t)]_vars

(***************************************************************************)
(* Properties of the note ids held by folder and tag entries.               *)
(***************************************************************************)
\* what updateNote of note n leaves in the noteIds of the folder and tag
\* entries of storage s, the note going from folder p and tags A to folder q
\* and tags B
UpdateNoteMoves(s, n) ==
  LET before == storageMap[s]
      after == storageMap'[s]
      p == before.noteMap[n].folderPathname
      A == before.noteMap[n].tags
      q == after.noteMap[n].folderPathname
      B == after.noteMap[n].tags
  IN  /\ \A f \in (DOMAIN before.folderMap) \cup (DOMAIN after.folderMap) :
           FolderIds(after, f) =
             IF f = q THEN FolderIds(before, f) \cup {n}
             ELSE IF f = p THEN FolderIds(before, f) \ {n}
             ELSE FolderIds(before, f)
      /\ \A g \in (DOMAIN before.tagMap) \cup (DOMAIN after.tagMap) :
           TagIds(after, g) =
             IF g \in B THEN TagIds(before, g) \cup {n}
             ELSE IF g \in A THEN TagIds(before, g) \ {n}
             ELSE TagIds(before, g)

\* C29: updateNote on an indexed note that is not trashed, changing its folder
\* from p to q and its tags from A to B, removes the note id from the noteIds
\* of folder p and of every tag in A but not in B, adds it to the noteIds of
\* folder q and of every tag in B, and leaves the noteIds of every other
\* folder and tag unchanged.
C29_UpdateNoteMoves ==
  [][\A s \in CalledOn, n \in Generated, props \in UpdateProps :
       (/\ UpdateNote(s, n, props)
        /\ last'.ok
        /\ n \in DOMAIN storageMap[s].noteMap
        /\ ~storageMap[s].noteMap[n].trashed)
       => UpdateNoteMoves(s, n)]_vars

\* the snapshot untrashNote(noteId) commits when it is the next operation
UntrashedNext(s, noteId) ==
  untrashNoteCommit(storageMap'[s], storageMap'[s],
                    StoreUntrashNote(db'[s], noteId), noteId)

\* the snapshot trashNote(noteId) commits when it is called again
TrashedAgain(s, noteId) ==
  trashNoteCommit(storageMap'[s], storageMap'[s],
                  StoreTrashNote(db'[s], noteId), noteId)

\* trashNote(n) has taken n out of the entries of its folder and tags,
\* untrashNote(n) puts it back, and a second trashNote(n) changes nothing
TrashNoteEffect(s, n) ==
  LET before == storageMap[s]
      after == storageMap'[s]
      note == before.noteMap[n]
  IN  /\ after.noteMap[n].trashed
      /\ n \notin FolderIds(after, note.folderPathname)
      /\ \A g \in note.tags : n \notin TagIds(after, g)
      /\ UntrashedNext(s, n).noteMap[n].trashed = note.trashed
      /\ \A f \in DOMAIN before.folderMap \cup DOMAIN UntrashedNext(s, n).folderMap :
           FolderIds(UntrashedNext(s, n), f) = FolderIds(before, f)
      /\ \A g \in DOMAIN before.tagMap \cup DOMAIN UntrashedNext(s, n).tagMap :
           TagIds(UntrashedNext(s, n), g) = TagIds(before, g)
      /\ IndexOf(TrashedAgain(s, n)) = IndexOf(after)

\* C30: trashNote(id) on a note that is not trashed removes its id from the
\* noteIds of its folder and of each of its tags and marks it trashed;
\* untrashNote(id) called next restores the noteIds of every folder and tag
\* and the trashed flag of the note to what they were before trashNote; and
\* trashNote(id) called again leaves the index as the first call left it.
C30_TrashUntrash ==
  [][\A s \in CalledOn, n \in Generated :
       (/\ TrashNote(s, n)
        /\ last'.ok
        /\ n \in DOMAIN storageMap[s].noteMap
        /\ ~storageMap[s].noteMap[n].trashed)
       => TrashNoteEffect(s, n)]_vars

(***************************************************************************)
(* Properties of renameFolder.                                              *)
(***************************************************************************)
\* what a renameFolder that returns normally leaves in the index of its
\* storage: `before` is the index the call read
RenameFolderEffect ==
  LET s == rename.sid
      before == rename.storage
      after == storageMap'[s]
      filed(f) == {n \in DOMAIN before.noteMap :
                     /\ before.noteMap[n].folderPathname = f
                     /\ ~before.noteMap[n].trashed}
  IN  /\ \A p \in DOMAIN after.folderMap : ~InSubtree(p, rename.pathname)
      /\ \A f \in DOMAIN rename.cb :
           /\ ~IsNull(after.folderMap, NewFolderPathname(f))
           /\ FolderIds(after, NewFolderPathname(f)) = filed(f)
      /\ \A n \in DOMAIN before.noteMap :
           (/\ before.noteMap[n].folderPathname \in DOMAIN rename.cb
            /\ ~before.noteMap[n].trashed) =>
             after.noteMap[n].folderPathname =
               NewFolderPathname(before.noteMap[n].folderPathname)
      /\ \A g \in DOMAIN before.tagMap \cup DOMAIN after.tagMap :
           TagIds(after, g) = TagIds(before, g)

\* C31: after a renameFolder(old, new) that returns normally the index has no
\* folder entry for old or for a path starting with old + "/", has an entry
\* for each rewritten path whose noteIds are the ids of the non-trashed notes
\* that were filed under the corresponding old path, every moved note of the
\* note index has the rewritten folder path, and the noteIds of every tag
\* entry are unchanged.
C31_RenameFolderRewrites ==
  [][RenameFolderReturn => RenameFolderEffect]_vars

(***************************************************************************)
(* Properties of the folder index.                                          *)
(***************************************************************************)
\* every ancestor of an indexed folder is indexed
AncestorClosed(storage) ==
  \A p \in DOMAIN storage.folderMap :
    ~IsNull(storage.folderMap, p) =>
      \A a \in getAllParentFolderPathnames(p) : ~IsNull(storage.folderMap, a)

\* a step in which createNote, updateNote, untrashNote or createFolder on
\* storage s, or moveNoteToOtherStorage into s, returns normally
MaterializingStep(s) ==
  /\ last' # NoOp
  /\ last'.ok
  /\ \/ \E props \in CreateProps : CreateNote(s, props)
     \/ \E n \in Generated, props \in UpdateProps : UpdateNote(s, n, props)
     \/ \E n \in Generated : UntrashNote(s, n)
     \/ \E p \in Paths : CreateFolder(s, p)
     \/ \E o \in StorageIds, n \in Generated, p \in Paths :
          MoveNoteToOtherStorage(o, n, s, p)

\* after the step every ancestor of a newly indexed folder of s is indexed:
\* with no note id if it was missing, and otherwise as it was, or without
\* the id of a note that left it
AncestorsMaterialized(s) ==
  LET before == storageMap[s]
      after == storageMap'[s]
      new == {p \in DOMAIN after.folderMap :
                IsNull(before.folderMap, p) /\ ~IsNull(after.folderMap, p)}
  IN  \A p \in new : \A a \in getAllParentFolderPathnames(p) :
        /\ ~IsNull(after.folderMap, a)
        /\ IsNull(before.folderMap, a) => FolderIds(after, a) = {}
        /\ ~IsNull(before.folderMap, a) =>
             \/ FolderIds(after, a) = FolderIds(before, a)
             \/ \E n \in FolderIds(before, a) :
                  FolderIds(after, a) = FolderIds(before, a) \ {n}

\* C32: once the operations called so far have run to completion, every
\* ancestor, up to the root, of a pathname that has a folder entry in the
\* index of a storage has a folder entry too; and createNote, updateNote,
\* untrashNote, createFolder and moveNoteToOtherStorage index the missing
\* ancestors of the folder they index, with no note id, and leave the noteIds
\* of the ancestors already indexed as they were.
C32_AncestorsIndexed ==
  /\ [](Idle => \A s \in DOMAIN storageMap : AncestorClosed(storageMap[s]))
  /\ [][\A s \in StorageIds :
          MaterializingStep(s) => AncestorsMaterialized(s)]_vars

(***************************************************************************)
(* Properties of the expiry of a timeout.                                   *)
(***************************************************************************)
\* storage s is registered, has a cloud storage and no session in flight
Replicable(s) ==
  /\ s \in DOMAIN storageMap
  /\ storageMap[s].cloudStorage # NoCloud
  /\ sessions[s] = {}

\* a timeout of s that is pending after the step would start a session if it
\* expired next
FireStartsNext(s) ==
  syncStorage(storageMap', sessions', s, TRUE).sessions # sessions'

MoveWithinEffect(o, n, f) ==
  LET after == storageMap'[o]
      new == noteCount'
  IN  /\ \A p \in DOMAIN after.folderMap : n \notin FolderIds(after, p)
      /\ \A g \in DOMAIN after.tagMap : n \notin TagIds(after, g)
      /\ new \in FolderIds(after, f)
      /\ \A g \in db'[o].notes[new].tags : new \in TagIds(after, g)

\* C34: after moveNoteToOtherStorage with the source storage as destination
\* returns, the id of the purged original note is in the noteIds of no folder
\* and of no tag of that storage, and the id of the new note is in the noteIds
\* of the destination folder and of each of its tags.
C34_MoveWithinStorage ==
  [][\A o \in StorageIds, n \in Generated, f \in Paths :
       (/\ StoreGetNote(db[o], n)
        /\ MoveNoteToOtherStorage(o, n, o, f)
        /\ last'.ok)
       => MoveWithinEffect(o, n, f)]_vars

(***************************************************************************)
(* Properties of a completion that overlaps local operations.               *)
(***************************************************************************)
\* every stored note is indexed, and every indexed note that is not trashed
\* has its id in the entries of its folder and of its tags
StoredNotesIndexed(d, storage) ==
  /\ DOMAIN d.notes \subseteq DOMAIN storage.noteMap
  /\ \A n \in DOMAIN storage.noteMap :
       LET note == storage.noteMap[n]
       IN  ~note.trashed =>
             /\ n \in FolderIds(storage, note.folderPathname)
             /\ \A g \in note.tags : n \in TagIds(storage, g)

\* C35: when the 'complete' handler commits the storage it prepared, every
\* note of the document store is in the note index and every indexed note
\* that is not trashed has its id in the noteIds of its folder and of each of
\* its tags, whatever local operation wrote to the store and committed since
\* the handler queried the store.
C35_CompletionKeepsMutations ==
  [][\A s \in StorageIds : \A x \in sessions[s] :
       SessionCompleteCommit(s, x) => StoredNotesIndexed(db'[s], storageMap'[s])]_vars

(***************************************************************************)
(* Properties of the descriptor and of the removal of a storage.            *)
(***************************************************************************)
\* the descriptor of a storage, the time of its last synchronization aside
DescriptorOf(storage) ==
  [name |-> storage.name,
   cloudStorage |-> IF storage.cloudStorage = NoCloud THEN NoCloud
                    ELSE [storage.cloudStorage EXCEPT !.synced = TRUE]]

\* the last call was a change of the descriptor of s, made while the sessions
\* of s that are in flight were running
DescriptorChanged(s) ==
  /\ last # NoOp
  /\ last.sid = s
  /\ last.ok
  /\ last.op \in {"unlinkStorage", "renameStorage", "renameCloudStorage"}

\* C36: when unlinkStorage(S), renameStorage(S) or renameCloudStorage(S) was
\* called while a session of S was in flight, S has the descriptor values set
\* by that call after the 'complete' handler of the session has committed:
\* it stays unlinked, it keeps its new name.
C36_DescriptorSurvivesSession ==
  [][\A s \in StorageIds : \A x \in sessions[s] :
       (/\ s \in DOMAIN storageMap
        /\ DescriptorChanged(s)
        /\ SessionComplete(s, x))
       => /\ DescriptorOf(storageMap'[s]) = DescriptorOf(storageMap[s])
          /\ saved'[s].name = storageMap[s].name
          /\ (saved'[s].cloudStorage = NoCloud) <=> (storageMap[s].cloudStorage = NoCloud)]_vars

\* C37: once removeStorage(id) has returned, the registry and the saved
\* descriptors do not hold id and never hold it again: a session of id that
\* completes or fails later does not insert the storage, and a timeout of id
\* that expires later starts no session and arms no timeout.
C37_RemovedStaysRemoved ==
  [][\A s \in StorageIds :
       /\ (RemoveStorage(s) /\ last'.ok) =>
            s \notin DOMAIN storageMap' /\ s \notin DOMAIN saved'
       /\ s \notin DOMAIN storageMap =>
            /\ s \notin DOMAIN storageMap'
            /\ s \notin DOMAIN saved'
            /\ sessions'[s] \subseteq sessions[s]
            /\ timers'[s] \subseteq timers[s]]_vars

\* reached: storage S was removed while a session of it was in flight and a
\* timeout pending; the session has ended and the timeout has expired
C37_Witness ==
  /\ "S" \notin DOMAIN storageMap
  /\ "S" \notin DOMAIN saved
  /\ last = Last("timerFire", "S", FALSE)
  /\ sessions["S"] = {}
  /\ timers["S"] = {}

(***************************************************************************)
(* Properties of the callbacks of one renameFolder call.                    *)
(***************************************************************************)
\* the call in progress renames a folder that has folders below it to a
\* pathname of the same depth, every rewritten pathname is well formed, and
\* when it was called the document store held every folder of the subtree and
\* none of the rewritten pathnames
RenameOfFreshSubtree ==
  /\ rename.active
  /\ Cardinality(DOMAIN rename.cb) > 1
  /\ SplitLength(rename.pathname) = SplitLength(rename.newPathname)
  /\ \A f \in DOMAIN rename.cb :
       /\ StoreGetFolder(rename.db0, f)
       /\ ~StoreGetFolder(rename.db0, NewFolderPathname(f))
       /\ isFolderPathnameValid(NewFolderPathname(f))

\* C38: renameFolder of a folder that has folders below it, to a pathname of
\* the same depth and with no rewritten pathname in the document store at the
\* call, is rejected by none of its callbacks, in whatever order they run.
C38_RenameSubtreeSucceeds ==
  RenameOfFreshSubtree =>
    /\ ~rename.rejected
    /\ \A f \in DOMAIN rename.cb : rename.cb[f] # "failed"

(***************************************************************************)
(* Liveness of background synchronization.                                  *)
(***************************************************************************)
\* auto-sync is enabled and storage s is registered and linked
SyncEnabled(s) ==
  /\ enableAutoSync
  /\ s \in DOMAIN storageMap
  /\ storageMap[s].cloudStorage.linked

MutationOps == {"createNote", "updateFolder", "addAttachments"}

\* the last step was a mutation of s that succeeded
Mutated(s) ==
  /\ last # NoOp
  /\ last.op \in MutationOps
  /\ last.sid = s
  /\ last.ok

\* the last step started a replication session of s
SessionStarted(s) ==
  /\ last # NoOp
  /\ last.op = "timerFire"
  /\ last.sid = s
  /\ last.ok

\* C39: with auto-sync enabled and storage S registered and linked from the
\* mutation on, every pending timeout expiring and every session ending, a
\* mutation of S is eventually followed by the start of a replication session
\* of S.
C39_MutationLeadsToSession ==
  (Mutated("S") /\ SyncEnabled("S")) ~> (SessionStarted("S") \/ ~SyncEnabled("S"))

====
